---- MODULE Spec2Model ----
(***************************************************************************)
(* Performance attribution and record keeping of the Factor-Tilt-Model     *)
(* repository: src/performance_attribution_system.py                       *)
(* (PerformanceAttributionSystem) and src/record_keeping_system.py         *)
(* (FactorRecordKeeping).                                                  *)
(*                                                                         *)
(* Numbers.  The Python code computes in IEEE doubles.  The model computes *)
(* in exact rationals [n, d] (d > 0, lowest terms) and keeps NaN as a      *)
(* separate value, so every equality below is an equality of real numbers. *)
(* The double rounding error of the few operations involved is of the      *)
(* order 1e-16, far inside the 1e-9 tolerance the properties use.          *)
(***************************************************************************)
EXTENDS Integers, Sequences, FiniteSets, TLC

VARIABLES
    \* ---- attribution pipeline (performance_attribution_system.py) ----
    factor_returns,      \* the factor_returns table: symbol -> date -> return or Absent
    pc,                  \* the next call of the attribution pipeline
    portfolio_weights,   \* the weight vector handed to the calls
    benchmark_weights,   \* the benchmark weight vector handed to Brinson
    portfolio_returns,   \* result of get_portfolio_returns (a DataFrame)
    benchmark_returns,   \* result of get_benchmark_returns (a Series)
    attribution,         \* result of calculate_brinson_attribution
    metrics,             \* result of calculate_risk_adjusted_metrics
    raised,              \* the exception the last call passed to its caller
    tilts,               \* result of calculate_factor_tilts_attribution
    \* ---- record store (record_keeping_system.py) ----
    trade_records,       \* rows of the trade_records table, in id order
    decision_records,    \* rows of the decision_records table
    risk_assessments,    \* rows of the risk_assessments table
    committed,           \* history: each table's rows as they were committed
    returned,            \* the last call of the store and its return value
    \* ---- concurrent writers of the database file ----
    attribution_results, \* rows of the attribution_results table
    calls,               \* worker -> the call it makes and how far it got
    lock,                \* the worker holding SQLite's write lock, or 0
    \* ---- compounding in floating point ----
    series,              \* rows (date, return) of one series, in stored order
    compounded,          \* the period returns computed from the rows
    \* ---- snapshots and compliance events (record_keeping_system.py) ----
    portfolio_snapshots, \* rows of the portfolio_snapshots table
    compliance_events,   \* rows of the compliance_events table
    \* ---- hashing of mappings ----
    mappings,            \* two dicts, each the sequence of its items as inserted
    signatures           \* their hash signatures

attr_vars == <<factor_returns, pc, portfolio_weights, benchmark_weights, tilts,
               portfolio_returns, benchmark_returns, attribution, metrics,
               raised>>

store_vars == <<trade_records, decision_records, risk_assessments, committed,
                returned>>

conc_vars == <<attribution_results, calls, lock>>

fn_vars == <<series, compounded>>

snapshot_vars == <<portfolio_snapshots, compliance_events>>

hash_vars == <<mappings, signatures>>

vars == <<attr_vars, store_vars, conc_vars, fn_vars, snapshot_vars, hash_vars>>

----------------------------------------------------------------------------
(* Bounds of the model. *)

\* Trading days of the requested period are 1..MaxDates.
MaxDates == 2

\* Rows the three record tables hold together, at most.
MaxRecords == 2

\* Rows of a series compounded in floating point, at most.
MaxRows == 3

\* Fraction bits of the floating-point format the compounding is modelled
\* in (a double has 52; the rounding behaves alike at every width).
FractionBits == 8

\* Calls that run side by side, each on a connection of its own.
MaxWorkers == 2

\* Fields of a mapping handed to generate_hash_signature, at most.
MaxFields == 2

----------------------------------------------------------------------------
(* Exact rational arithmetic. *)

Abs(x) == IF x < 0 THEN -x ELSE x

RECURSIVE GCD(_, _)
GCD(a, b) == IF b = 0 THEN a ELSE GCD(b, a % b)

\* The rational n/d (d > 0) in lowest terms.
Rat(n, d) ==
    LET g == GCD(Abs(n), d)
    IN  [n |-> n \div g, d |-> d \div g]

RZero == [n |-> 0, d |-> 1]
ROne == [n |-> 1, d |-> 1]

RAdd(a, b) ==
    LET g == GCD(a.d, b.d)
        l == (a.d \div g) * b.d
    IN  Rat(a.n * (l \div a.d) + b.n * (l \div b.d), l)

RNeg(a) == [n |-> -a.n, d |-> a.d]

RSub(a, b) == RAdd(a, RNeg(b))

RMul(a, b) ==
    LET g1 == GCD(Abs(a.n), b.d)
        g2 == GCD(Abs(b.n), a.d)
    IN  [n |-> (a.n \div g1) * (b.n \div g2), d |-> (a.d \div g2) * (b.d \div g1)]

\* |a| <= 1/k, for a positive integer k: |n| * k <= d, without the product.
RWithin(a, k) == Abs(a.n) <= a.d \div k

----------------------------------------------------------------------------
(* Floats of the data frames: a number or NaN (a missing value). *)

Num(r) == [k |-> "num", n |-> r.n, d |-> r.d]
NaN == [k |-> "nan", n |-> 0, d |-> 1]
\* No row of the factor_returns table for this (date, symbol).
Absent == [k |-> "absent", n |-> 0, d |-> 1]

IsNaN(x) == x.k = "nan"
Val(x) == [n |-> x.n, d |-> x.d]

\* Increasing order of a finite set of dates.
RECURSIVE SortAsc(_)
SortAsc(S) ==
    IF S = {} THEN <<>>
    ELSE LET m == CHOOSE x \in S : \A y \in S : x <= y
         IN  <<m>> \o SortAsc(S \ {m})

Range(s) == {s[i] : i \in DOMAIN s}

\* Sum of f[x] over the finite set S.
RECURSIVE RSum(_, _)
RSum(f, S) ==
    IF S = {} THEN RZero
    ELSE LET x == CHOOSE y \in S : TRUE
         IN  RAdd(f[x], RSum(f, S \ {x}))

----------------------------------------------------------------------------
(* Inputs of the attribution pipeline. *)

Dates == 1..MaxDates

\* Two of the six factor ETFs of the source (Value -> VTV, Growth -> VUG).
factor_etfs == [Value |-> "VTV", Growth |-> "VUG"]

\* self.benchmark
benchmark == "SPY"

Symbols == {factor_etfs[f] : f \in DOMAIN factor_etfs} \cup {benchmark}

\* Daily returns a series may hold on a date (Absent: the table has no row
\* for that date and symbol).  VUG returns 0 on odd days and 1% on even days.
SeriesValues(sym, d) ==
    CASE sym = "VTV" -> {Absent, Num(Rat(1, 100)), Num(Rat(-2, 100))}
      [] sym = "VUG" -> {Absent, IF d % 2 = 1 THEN Num(Rat(0, 1)) ELSE Num(Rat(1, 100))}
      [] OTHER       -> {Absent, Num(Rat(5, 1000)), Num(Rat(-5, 1000))}

\* The series a symbol may have over the period.
SeriesOf(sym) == {f \in [Dates -> UNION {SeriesValues(sym, d) : d \in Dates}] :
                    \A d \in Dates : f[d] \in SeriesValues(sym, d)}

\* A weight argument: a mapping factor -> weight, or None (none = TRUE).
Weights(w) == [none |-> FALSE, w |-> w]
NoWeights == [none |-> TRUE, w |-> [f \in {} |-> RZero]]

\* Weight vectors that do not cover the configured factors one to one: a
\* single factor, a factor together with one that has no ETF in
\* factor_etfs here, and no vector at all.
PartialWeightVectors ==
    { Weights([Value |-> Rat(1, 1)]),
      Weights([Value |-> Rat(6, 10), Quality |-> Rat(4, 10)]),
      NoWeights }

\* Portfolio weight vectors handed to the calls: sums 1, 1, 1 (one short), 6/5.
PortfolioWeightVectors ==
    { Weights([Value |-> Rat(6, 10), Growth |-> Rat(4, 10)]),
      Weights([Value |-> Rat(5, 10), Growth |-> Rat(5, 10)]),
      Weights([Value |-> Rat(15, 10), Growth |-> Rat(-5, 10)]),
      Weights([Value |-> Rat(6, 10), Growth |-> Rat(6, 10)]) }

BenchmarkWeightVectors ==
    { Weights([Value |-> Rat(5, 10), Growth |-> Rat(5, 10)]),
      Weights([Value |-> Rat(4, 10), Growth |-> Rat(6, 10)]) }

WeightSum(w) == RSum(w, DOMAIN w)

\* The weights sum to 1 within 1e-6.
Tolerance6 == 1000 * 1000
SumsToOne(w) == RWithin(RSub(WeightSum(w), ROne), Tolerance6)

----------------------------------------------------------------------------
(* Data frames and series.  A DataFrame is its date index (a sequence) and *)
(* one sequence of floats per column, aligned with the index; a Series is  *)
(* an index and one sequence of values.                                    *)

\* pd.DataFrame()
EmptyDataFrame == [index |-> <<>>, cols |-> [c \in {} |-> <<>>]]
\* pd.Series()
EmptySeries == [index |-> <<>>, values |-> <<>>]
\* The dict {} the except branches return.
EmptyDict == [ok |-> FALSE]

DfEmpty(df) == df.index = <<>> \/ DOMAIN df.cols = {}

\* The (symbol, date) rows the SELECT returns for the given symbols.
QueryRows(db, symbols) ==
    {p \in symbols \X Dates : db[p[1]][p[2]].k # "absent"}

symbol_to_factor(sym) == CHOOSE f \in DOMAIN factor_etfs : factor_etfs[f] = sym

\* An inner join of the queried series: only the dates on which every
\* queried symbol has a row.  (Not what the code does; used to show that
\* the outer-join statement tells the two apart.)
PivotInner(db, rows) ==
    LET syms  == {p[1] : p \in rows}
        index == SortAsc({d \in {p[2] : p \in rows} :
                            \A s \in syms : <<s, d>> \in rows})
    IN  [index |-> index,
         cols  |-> [f \in {symbol_to_factor(s) : s \in syms} |->
                      [i \in DOMAIN index |-> db[factor_etfs[f]][index[i]]]]]

\* returns_df.pivot(index='date', columns='symbol', values='daily_return'):
\* one row per date of any queried row, in increasing order, one column per
\* symbol of any queried row, NaN where the (date, symbol) row is missing;
\* the columns are then renamed to the factor names.
Pivot(db, rows) ==
    LET index == SortAsc({p[2] : p \in rows})
        syms  == {p[1] : p \in rows}
    IN  [index |-> index,
         cols  |-> [f \in {symbol_to_factor(s) : s \in syms} |->
                      [i \in DOMAIN index |->
                          IF <<factor_etfs[f], index[i]>> \in rows
                          THEN db[factor_etfs[f]][index[i]]
                          ELSE NaN]]]

\* weights = None: equal weight over self.factor_etfs.
DefaultWeights ==
    [f \in DOMAIN factor_etfs |-> Rat(1, Cardinality(DOMAIN factor_etfs))]

\* A weighted daily return that gives up the whole row (0) when a weighted
\* factor has no value on it.  (Not what the code does.)
WeightedDailyReturnCompleteRowsOnly(pivot, w, i) ==
    IF \A f \in DOMAIN w : f \in DOMAIN pivot.cols /\ ~IsNaN(pivot.cols[f][i])
    THEN RSum([f \in DOMAIN w |-> RMul(w[f], Val(pivot.cols[f][i]))], DOMAIN w)
    ELSE RZero

\* The inner loop of get_portfolio_returns for one row: the sum of
\* weight * factor_return over the weighted factors that are columns of the
\* table and are not NaN on that row.
WeightedDailyReturn(pivot, w, i) ==
    LET used == {f \in DOMAIN w : f \in DOMAIN pivot.cols /\ ~IsNaN(pivot.cols[f][i])}
    IN  RSum([f \in used |-> RMul(w[f], Val(pivot.cols[f][i]))], used)

\* get_portfolio_returns(start_date, end_date, weights)
get_portfolio_returns(db, weights) ==
    LET rows == QueryRows(db, {factor_etfs[f] : f \in DOMAIN factor_etfs})
    IN  IF rows = {} THEN EmptyDataFrame
        ELSE LET pivot == Pivot(db, rows)
                 w     == IF weights.none THEN DefaultWeights ELSE weights.w
                 port  == [i \in DOMAIN pivot.index |->
                              Num(WeightedDailyReturn(pivot, w, i))]
             IN  [index |-> pivot.index,
                  cols  |-> [c \in DOMAIN pivot.cols \cup {"Portfolio"} |->
                               IF c = "Portfolio" THEN port ELSE pivot.cols[c]]]

\* get_benchmark_returns(start_date, end_date): the SELECT has no ORDER BY
\* and the frame is not sorted; the rows are taken in date order, the order
\* of the table's (date, symbol) primary key.
get_benchmark_returns(db) ==
    LET rows == QueryRows(db, {benchmark})
    IN  IF rows = {} THEN EmptySeries
        ELSE LET index == SortAsc({p[2] : p \in rows})
             IN  [index |-> index,
                  values |-> [i \in DOMAIN index |-> db[benchmark][index[i]]]]

----------------------------------------------------------------------------
(* calculate_brinson_attribution *)

\* (series + 1).prod(): pandas skips NaN; the empty product is 1.
RECURSIVE ProdOnePlus(_)
ProdOnePlus(values) ==
    IF values = <<>> THEN ROne
    ELSE LET rest == ProdOnePlus(Tail(values))
         IN  IF IsNaN(Head(values)) THEN rest
             ELSE RMul(RAdd(ROne, Val(Head(values))), rest)

\* The arithmetic sum of the daily returns.  (Not what the code does.)
RECURSIVE ArithmeticReturn(_)
ArithmeticReturn(values) ==
    IF values = <<>> THEN RZero
    ELSE IF IsNaN(Head(values)) THEN ArithmeticReturn(Tail(values))
         ELSE RAdd(Val(Head(values)), ArithmeticReturn(Tail(values)))

\* (series + 1).prod() - 1
PeriodReturn(values) == RSub(ProdOnePlus(values), ROne)

\* Default benchmark weights that are equal over the factors carrying a
\* portfolio weight.  (Not what the code does.)
EqualOverWeightedFactors(bw) ==
    IF bw.none
    THEN [f \in DOMAIN portfolio_weights.w |->
             Rat(1, Cardinality(DOMAIN portfolio_weights.w))]
    ELSE bw.w

\* benchmark_weights = None: equal weight over self.factor_etfs.
EffectiveBenchmarkWeights(bw) == IF bw.none THEN DefaultWeights ELSE bw.w

\* benchmark_weights.get(factor, 0.0)
GetWeight(w, f) == IF f \in DOMAIN w THEN w[f] ELSE RZero

\* factor_period_returns.get(factor, 0.0): the compounded column of the
\* factor when the table has it.
FactorPeriodReturn(df, f) ==
    IF f \in DOMAIN df.cols THEN PeriodReturn(df.cols[f]) ELSE RZero

\* Allocation at the factor's own return.  (Not what the code does.)
FactorAllocationAtFactorReturn(wp, wb, rp, rb) == RMul(RSub(wp, wb), rp)

\* The three per-factor terms of the loop over portfolio_weights.keys().
FactorAllocation(wp, wb, rp, rb) == RMul(RSub(wp, wb), rb)
\* Selection weighted by the portfolio weight.  (Not what the code does.)
FactorSelectionAtPortfolioWeight(wp, wb, rp, rb) == RMul(wp, RSub(rp, rb))
FactorSelection(wp, wb, rp, rb) == RMul(wb, RSub(rp, rb))
FactorInteraction(wp, wb, rp, rb) == RMul(RSub(wp, wb), RSub(rp, rb))


calculate_brinson_attribution(df, bench, pw, bw) ==
    IF "Portfolio" \notin DOMAIN df.cols
    THEN EmptyDict      \* portfolio_returns['Portfolio']: KeyError, caught
    ELSE IF pw.none
    THEN EmptyDict      \* None.keys(): AttributeError, caught
    ELSE
    LET wbs == EffectiveBenchmarkWeights(bw)
        portfolio_period_return == PeriodReturn(df.cols["Portfolio"])
        benchmark_period_return == PeriodReturn(bench.values)
        F  == DOMAIN pw.w
        rb == benchmark_period_return
        alloc == [f \in F |-> FactorAllocation(pw.w[f], GetWeight(wbs, f),
                                               FactorPeriodReturn(df, f), rb)]
        sel   == [f \in F |-> FactorSelection(pw.w[f], GetWeight(wbs, f),
                                              FactorPeriodReturn(df, f), rb)]
        inter == [f \in F |-> FactorInteraction(pw.w[f], GetWeight(wbs, f),
                                                FactorPeriodReturn(df, f), rb)]
        allocation_effect  == RSum(alloc, F)
        selection_effect   == RSum(sel, F)
        interaction_effect == RSum(inter, F)
    IN  [ok |-> TRUE,
         total_return       |-> portfolio_period_return,
         benchmark_return   |-> benchmark_period_return,
         excess_return      |-> RSub(portfolio_period_return, benchmark_period_return),
         allocation_effect  |-> allocation_effect,
         selection_effect   |-> selection_effect,
         interaction_effect |-> interaction_effect,
         factor_contributions |->
             [f \in F |-> RAdd(RAdd(alloc[f], sel[f]), inter[f])],
         reconciliation |->
             RAdd(RAdd(allocation_effect, selection_effect), interaction_effect)]

----------------------------------------------------------------------------
(* calculate_factor_tilts_attribution *)

\* Series.sum(): pandas skips NaN; the empty sum is 0.
RECURSIVE SumSkipNa(_)
SumSkipNa(values) ==
    IF values = <<>> THEN RZero
    ELSE IF IsNaN(Head(values)) THEN SumSkipNa(Tail(values))
         ELSE RAdd(Val(Head(values)), SumSkipNa(Tail(values)))

\* A neutral weight that is equal over the configured factors instead of
\* the factors of the weight vector.  (Not what the code does.)
NeutralWeightOverFactorEtfs(weights) == Rat(1, Cardinality(DOMAIN factor_etfs))

\* equal_weights = {factor: 1.0/len(weights) for factor in weights.keys()}
NeutralWeight(weights) == Rat(1, Cardinality(DOMAIN weights))

\* A weight difference that leaves the neutral weight out.  (Not what the
\* code does.)
WeightUntilted(weights, f) == weights[f]

\* weight_diff = weights[factor] - equal_weights[factor]
WeightDiff(weights, f) == RSub(weights[f], NeutralWeight(weights))

\* The tilt of the first row alone.  (Not what the code does.)
FactorTiltOfFirstRow(values, weight_diff) ==
    IF values = <<>> \/ IsNaN(Head(values)) THEN RZero
    ELSE RMul(Val(Head(values)), weight_diff)

\* (factor_returns * weight_diff).sum(): each value times the difference,
\* NaN staying NaN, then the sum skipping NaN.
FactorTilt(values, weight_diff) ==
    SumSkipNa([i \in DOMAIN values |->
                 IF IsNaN(values[i]) THEN NaN
                 ELSE Num(RMul(Val(values[i]), weight_diff))])

\* calculate_factor_tilts_attribution(returns_df, weights)
calculate_factor_tilts_attribution(df, pw) ==
    IF pw.none
    THEN EmptyDict      \* len(None): TypeError, caught
    ELSE
    LET weights == pw.w
        F == DOMAIN weights
        equal_weights == [f \in F |-> NeutralWeight(weights)]
        tilted_returns ==
            [i \in DOMAIN df.index |-> Num(WeightedDailyReturn(df, weights, i))]
        neutral_returns ==
            [i \in DOMAIN df.index |-> Num(WeightedDailyReturn(df, equal_weights, i))]
        present == F \cap DOMAIN df.cols
        tilt_attribution ==
            [f \in present |-> FactorTilt(df.cols[f], WeightDiff(weights, f))]
    IN  [ok |-> TRUE,
         tilted_portfolio_return  |-> SumSkipNa(tilted_returns),
         neutral_portfolio_return |-> SumSkipNa(neutral_returns),
         total_tilt_effect        |-> RSum(tilt_attribution, present),
         factor_tilt_contributions |-> tilt_attribution,
         daily_excess_returns |->
             [i \in DOMAIN df.index |->
                 RSub(Val(tilted_returns[i]), Val(neutral_returns[i]))]]

----------------------------------------------------------------------------
(* calculate_risk_adjusted_metrics *)

\* pd.DataFrame({'portfolio': p, 'benchmark': b}).dropna(): the dates both
\* series hold with a value, in increasing order.
AlignedDates(p, b) ==
    SortAsc({d \in Range(p.index) \cap Range(b.index) :
                \E i \in DOMAIN p.index, j \in DOMAIN b.index :
                    /\ p.index[i] = d /\ b.index[j] = d
                    /\ ~IsNaN(p.values[i]) /\ ~IsNaN(b.values[j])})

ValueAt(s, d) == Val(s.values[CHOOSE i \in DOMAIN s.index : s.index[i] = d])

SeqSum(xs) == RSum(xs, DOMAIN xs)

\* Series.mean()
Mean(xs) == RMul(SeqSum(xs), Rat(1, Len(xs)))

\* Series.std() (ddof = 1) as its square: NaN for a single observation,
\* else sum((x - mean)^2) / (n - 1).
Std(xs) ==
    IF Len(xs) < 2 THEN [k |-> "nan", var |-> RZero]
    ELSE LET m == Mean(xs)
             sq == [i \in DOMAIN xs |-> RMul(RSub(xs[i], m), RSub(xs[i], m))]
         IN  [k |-> "num", var |-> RMul(SeqSum(sq), Rat(1, Len(xs) - 1))]

\* vol != 0 in Python: true of NaN and of every non-zero number.
NotZero(std) == std.k = "nan" \/ std.var.n # 0

\* numerator / vol if vol != 0 else 0, with vol = std * sqrt(252).  The
\* quotient is kept as its numerator and the variance under the root.
GuardedRatio(numerator, std) ==
    IF NotZero(std)
    THEN IF std.k = "nan"
         THEN [k |-> "nan", num |-> RZero, var |-> RZero]
         ELSE [k |-> "quot", num |-> numerator, var |-> std.var]
    ELSE [k |-> "zero", num |-> RZero, var |-> RZero]

\* risk_free_rate = 0.02
risk_free_rate == Rat(2, 100)

Annual(x) == RMul(x, Rat(252, 1))

calculate_risk_adjusted_metrics(p, b) ==
    LET dates == AlignedDates(p, b)
    IN  IF dates = <<>> THEN EmptyDict
        ELSE
        LET portfolio_ret == [i \in DOMAIN dates |-> ValueAt(p, dates[i])]
            benchmark_ret == [i \in DOMAIN dates |-> ValueAt(b, dates[i])]
            diff == [i \in DOMAIN dates |-> RSub(portfolio_ret[i], benchmark_ret[i])]
            portfolio_vol == Std(portfolio_ret)
            benchmark_vol == Std(benchmark_ret)
            tracking_error == Std(diff)
            avg_excess_return == Annual(Mean(diff))
        IN  [ok |-> TRUE,
             dates |-> dates,
             portfolio_vol |-> portfolio_vol,
             benchmark_vol |-> benchmark_vol,
             tracking_error |-> tracking_error,
             information_ratio |-> GuardedRatio(avg_excess_return, tracking_error),
             portfolio_sharpe |->
                 GuardedRatio(RSub(Annual(Mean(portfolio_ret)), risk_free_rate),
                              portfolio_vol),
             benchmark_sharpe |->
                 GuardedRatio(RSub(Annual(Mean(benchmark_ret)), risk_free_rate),
                              benchmark_vol)]

----------------------------------------------------------------------------
(* The attribution pipeline: alignment, decomposition, risk metrics. *)

NotCalled == [called |-> FALSE]

AttrIdle ==
    /\ factor_returns = [s \in Symbols |-> [d \in Dates |-> Absent]]
    /\ pc = "idle"
    /\ portfolio_weights = NoWeights
    /\ benchmark_weights = NoWeights
    /\ portfolio_returns = NotCalled
    /\ benchmark_returns = NotCalled
    /\ attribution = NotCalled
    /\ metrics = NotCalled
    /\ raised = "none"
    /\ tilts = NotCalled

\* The record store before any record is written: the tables exist and are
\* empty (initialize_database creates them with IF NOT EXISTS).
StoreIdle ==
    /\ trade_records = <<>>
    /\ decision_records = <<>>
    /\ risk_assessments = <<>>
    /\ committed = [trade_records |-> <<>>, decision_records |-> <<>>,
                    risk_assessments |-> <<>>]
    /\ returned = [op |-> "none", ok |-> TRUE,
                   results |-> [trade_records |-> TRUE, decision_records |-> TRUE,
                                risk_assessments |-> TRUE]]

\* No concurrent writer at work: attribution_results is empty, no call is
\* under way and nobody holds the write lock.
\* The write lock of each database file (0: free, else the holding call).
NoLocks == [factor_data |-> 0, factor_records |-> 0]

ConcIdle ==
    /\ attribution_results = <<>>
    /\ calls = [w \in {} |-> 0]
    /\ lock = NoLocks

\* No series is being compounded.
FnIdle ==
    /\ series = <<>>
    /\ compounded = NotCalled

\* No snapshot and no compliance event is stored.
SnapshotIdle ==
    /\ portfolio_snapshots = <<>>
    /\ compliance_events = <<>>

\* No mapping is being hashed.
HashIdle ==
    /\ mappings = <<>>
    /\ signatures = NotCalled

AttrInit ==
    /\ StoreIdle
    /\ ConcIdle
    /\ FnIdle
    /\ SnapshotIdle
    /\ HashIdle
    /\ tilts = NotCalled
    /\ factor_returns \in
         {[s \in Symbols |-> CASE s = "VTV" -> a [] s = "VUG" -> g [] OTHER -> m] :
            a \in SeriesOf("VTV"), g \in SeriesOf("VUG"), m \in SeriesOf(benchmark)}
    /\ pc = "get_portfolio_returns"
    /\ portfolio_weights = NoWeights
    /\ benchmark_weights = NoWeights
    /\ portfolio_returns = NotCalled
    /\ benchmark_returns = NotCalled
    /\ attribution = NotCalled
    /\ metrics = NotCalled
    /\ raised = "none"

\* A get_portfolio_returns that raises DataUnavailableError instead of
\* returning an empty table.  (Not what the code does.)
GetPortfolioReturnsRaising(w) ==
    /\ pc = "get_portfolio_returns"
    /\ portfolio_weights' = w
    /\ portfolio_returns' = get_portfolio_returns(factor_returns, w)
    /\ raised' = IF DfEmpty(get_portfolio_returns(factor_returns, w))
                 THEN "DataUnavailableError" ELSE "none"
    /\ pc' = "get_benchmark_returns"
    /\ UNCHANGED <<factor_returns, benchmark_weights, benchmark_returns,
                   attribution, metrics, tilts, store_vars, conc_vars, fn_vars,
                   snapshot_vars, hash_vars>>

\* A calculate_brinson_attribution that refuses weights not summing to 1.
\* (Not what the code does.)
CalculateBrinsonAttributionValidating(bw) ==
    /\ pc = "calculate_brinson_attribution"
    /\ benchmark_weights' = bw
    /\ IF SumsToOne(portfolio_weights.w)
       THEN /\ attribution' = calculate_brinson_attribution(
                                  portfolio_returns, benchmark_returns,
                                  portfolio_weights, bw)
            /\ raised' = "none"
       ELSE /\ attribution' = EmptyDict
            /\ raised' = "InvalidWeightVectorError"
    /\ pc' = "calculate_factor_tilts_attribution"
    /\ UNCHANGED <<factor_returns, portfolio_weights, portfolio_returns,
                   benchmark_returns, metrics, tilts, store_vars, conc_vars, fn_vars,
                   snapshot_vars, hash_vars>>

\* Every function of the class catches Exception and returns an empty
\* value: no call propagates an exception to its caller.
GetPortfolioReturns(w) ==
    /\ pc = "get_portfolio_returns"
    /\ portfolio_weights' = w
    /\ portfolio_returns' = get_portfolio_returns(factor_returns, w)
    /\ raised' = "none"
    /\ pc' = "get_benchmark_returns"
    /\ UNCHANGED <<factor_returns, benchmark_weights, benchmark_returns,
                   attribution, metrics, tilts, store_vars, conc_vars, fn_vars,
                   snapshot_vars, hash_vars>>

GetBenchmarkReturns ==
    /\ pc = "get_benchmark_returns"
    /\ benchmark_returns' = get_benchmark_returns(factor_returns)
    /\ raised' = "none"
    /\ pc' = "calculate_brinson_attribution"
    /\ UNCHANGED <<factor_returns, portfolio_weights, benchmark_weights,
                   portfolio_returns, attribution, metrics, tilts, store_vars, conc_vars, fn_vars,
                   snapshot_vars, hash_vars>>

CalculateBrinsonAttribution(bw) ==
    /\ pc = "calculate_brinson_attribution"
    /\ benchmark_weights' = bw
    /\ attribution' = calculate_brinson_attribution(
                          portfolio_returns, benchmark_returns,
                          portfolio_weights, bw)
    /\ raised' = "none"
    /\ pc' = "calculate_factor_tilts_attribution"
    /\ UNCHANGED <<factor_returns, portfolio_weights, portfolio_returns,
                   benchmark_returns, metrics, tilts, store_vars, conc_vars, fn_vars,
                   snapshot_vars, hash_vars>>

\* Called with the table of get_portfolio_returns and the portfolio weights.
\* A calculate_factor_tilts_attribution that passes its failure on to the
\* caller as a typed error.  (Not what the code does.)
CalculateFactorTiltsAttributionRaising ==
    /\ pc = "calculate_factor_tilts_attribution"
    /\ LET result == calculate_factor_tilts_attribution(portfolio_returns,
                                                        portfolio_weights)
       IN  /\ tilts' = IF result = EmptyDict THEN tilts ELSE result
           /\ raised' = IF result = EmptyDict THEN "InvalidWeightVectorError"
                         ELSE "none"
    /\ pc' = "calculate_risk_adjusted_metrics"
    /\ UNCHANGED <<factor_returns, portfolio_weights, benchmark_weights,
                   portfolio_returns, benchmark_returns, attribution, metrics,
                   store_vars, conc_vars, fn_vars,
                   snapshot_vars, hash_vars>>

CalculateFactorTiltsAttribution ==
    /\ pc = "calculate_factor_tilts_attribution"
    /\ tilts' = calculate_factor_tilts_attribution(portfolio_returns,
                                                   portfolio_weights)
    /\ raised' = "none"
    /\ pc' = "calculate_risk_adjusted_metrics"
    /\ UNCHANGED <<factor_returns, portfolio_weights, benchmark_weights,
                   portfolio_returns, benchmark_returns, attribution, metrics,
                   store_vars, conc_vars, fn_vars,
                   snapshot_vars, hash_vars>>

\* A calculate_risk_adjusted_metrics that raises DataUnavailableError when
\* the two series share no date.  (Not what the code does.)
CalculateRiskAdjustedMetricsRaising ==
    /\ pc = "calculate_risk_adjusted_metrics"
    /\ "Portfolio" \in DOMAIN portfolio_returns.cols
    /\ metrics' = calculate_risk_adjusted_metrics(
                      [index |-> portfolio_returns.index,
                       values |-> portfolio_returns.cols["Portfolio"]],
                      benchmark_returns)
    /\ raised' = IF metrics' = EmptyDict THEN "DataUnavailableError" ELSE "none"
    /\ pc' = "done"
    /\ UNCHANGED <<factor_returns, portfolio_weights, benchmark_weights,
                   portfolio_returns, benchmark_returns, attribution, tilts,
                   store_vars, conc_vars, fn_vars,
                   snapshot_vars, hash_vars>>

\* Called with the Portfolio column of the table and the benchmark series.
CalculateRiskAdjustedMetrics ==
    /\ pc = "calculate_risk_adjusted_metrics"
    /\ "Portfolio" \in DOMAIN portfolio_returns.cols
    /\ metrics' = calculate_risk_adjusted_metrics(
                      [index |-> portfolio_returns.index,
                       values |-> portfolio_returns.cols["Portfolio"]],
                      benchmark_returns)
    /\ raised' = "none"
    /\ pc' = "done"
    /\ UNCHANGED <<factor_returns, portfolio_weights, benchmark_weights,
                   portfolio_returns, benchmark_returns, attribution, tilts, store_vars, conc_vars, fn_vars,
                   snapshot_vars, hash_vars>>

AttrNext ==
    \/ \E w \in PortfolioWeightVectors : GetPortfolioReturns(w)
    \/ GetBenchmarkReturns
    \/ \E bw \in BenchmarkWeightVectors : CalculateBrinsonAttribution(bw)
    \/ CalculateFactorTiltsAttribution
    \/ CalculateRiskAdjustedMetrics

AttributionSpec == AttrInit /\ [][AttrNext]_vars

\* The same calls with weight vectors that cover only some factors, or
\* none, and no benchmark weights (benchmark_weights = None).
PartialWeightsNext ==
    \/ \E w \in PartialWeightVectors : GetPortfolioReturns(w)
    \/ GetBenchmarkReturns
    \/ CalculateBrinsonAttribution(NoWeights)
    \/ CalculateFactorTiltsAttribution
    \/ CalculateRiskAdjustedMetrics

PartialWeightsSpec == AttrInit /\ [][PartialWeightsNext]_vars

----------------------------------------------------------------------------
(* Properties of the attribution pipeline (checked under AttributionSpec). *)

AfterPortfolio == pc \in {"get_benchmark_returns", "calculate_brinson_attribution",
                          "calculate_factor_tilts_attribution",
                          "calculate_risk_adjusted_metrics", "done"}
AfterBenchmark == pc \in {"calculate_brinson_attribution",
                          "calculate_factor_tilts_attribution",
                          "calculate_risk_adjusted_metrics", "done"}
AfterBrinson == pc \in {"calculate_factor_tilts_attribution",
                        "calculate_risk_adjusted_metrics", "done"}
AfterTilts == pc \in {"calculate_risk_adjusted_metrics", "done"}
AfterMetrics == pc = "done"

\* The dates on which the table has a row for the factor's ETF.
FactorDates(f) == {d \in Dates : factor_returns[factor_etfs[f]][d].k # "absent"}
BenchmarkDates == {d \in Dates : factor_returns[benchmark][d].k # "absent"}
\* Dates present in every requested series, and in at least one of them.
CommonDates == {d \in Dates : \A f \in DOMAIN factor_etfs : d \in FactorDates(f)}
AnyDates == {d \in Dates : \E f \in DOMAIN factor_etfs : d \in FactorDates(f)}

Tolerance9 == 1000 * 1000 * 1000

EffectsSum(a) ==
    RAdd(RAdd(a.allocation_effect, a.selection_effect), a.interaction_effect)

\* allocation + selection + interaction = excess_return within 1e-9
Reconciles(a) == RWithin(RSub(EffectsSum(a), a.excess_return), Tolerance9)

\* C1 (as claimed): on an aligned table (no missing value) with at least two
\* common dates and portfolio and benchmark weights that each sum to 1, the
\* Brinson result satisfies allocation_effect + selection_effect +
\* interaction_effect = excess_return = total_return - benchmark_return.
C1_BrinsonIdentity ==
    (/\ AfterBrinson
     /\ attribution.ok
     /\ Cardinality(CommonDates) >= 2
     /\ AnyDates = CommonDates
     /\ SumsToOne(portfolio_weights.w)
     /\ SumsToOne(EffectiveBenchmarkWeights(benchmark_weights)))
    => /\ attribution.excess_return =
              RSub(attribution.total_return, attribution.benchmark_return)
       /\ Reconciles(attribution)

\* The concrete scenario of the spec: A = Value = [0.01, -0.02],
\* B = Growth = [0.00, 0.01], benchmark series [0.005, -0.005] (the
\* benchmark-weighted daily return), weights {A: 0.6, B: 0.4} against
\* {A: 0.5, B: 0.5}.
ConcreteScenario ==
    /\ factor_returns["VTV"][1] = Num(Rat(1, 100))
    /\ factor_returns["VTV"][2] = Num(Rat(-2, 100))
    /\ factor_returns["VUG"][1] = Num(Rat(0, 1))
    /\ factor_returns["VUG"][2] = Num(Rat(1, 100))
    /\ factor_returns[benchmark][1] = Num(Rat(5, 1000))
    /\ factor_returns[benchmark][2] = Num(Rat(-5, 1000))
    /\ \A s \in Symbols : \A d \in Dates : d > 2 => factor_returns[s][d] = Absent
    /\ portfolio_weights = Weights([Value |-> Rat(6, 10), Growth |-> Rat(4, 10)])
    /\ benchmark_weights = Weights([Value |-> Rat(5, 10), Growth |-> Rat(5, 10)])

\* C2 (as claimed): in the concrete scenario the portfolio period return is
\* (1.006)(0.988) - 1, the benchmark period return (1.005)(0.995) - 1, the
\* excess return their difference, and the three effects sum to it.
C2_ConcreteScenario ==
    (AfterBrinson /\ ConcreteScenario)
    => /\ attribution.ok
       /\ attribution.total_return =
              RSub(RMul(Rat(1006, 1000), Rat(988, 1000)), ROne)
       /\ attribution.benchmark_return =
              RSub(RMul(Rat(1005, 1000), Rat(995, 1000)), ROne)
       /\ attribution.excess_return =
              RSub(attribution.total_return, attribution.benchmark_return)
       /\ Reconciles(attribution)

\* What the code computes in the concrete scenario (kept for reference by
\* the C2 divergence): total return (1.006)(0.992) - 1 = -0.002048, effects
\* summing to -0.002095, excess return -0.002023.
ScenarioAsComputed ==
    (AfterBrinson /\ ConcreteScenario)
    => /\ attribution.total_return =
              RSub(RMul(Rat(1006, 1000), Rat(992, 1000)), ROne)
       /\ attribution.benchmark_return =
              RSub(RMul(Rat(1005, 1000), Rat(995, 1000)), ROne)
       /\ attribution.excess_return = Rat(-2023, 1000 * 1000)
       /\ EffectsSum(attribution) = Rat(-2095, 1000 * 1000)

\* C1, C2: the scenario has been attributed (reached; the as-claimed
\* statements fail there).
ScenarioAttributed == AfterBrinson /\ ConcreteScenario /\ attribution.ok

IsAscending(index) == \A i, j \in DOMAIN index : i < j => index[i] < index[j]

FactorColumns(df) == DOMAIN df.cols \ {"Portfolio"}

ExpectedDailyReturn(w, d) ==
    LET used == {f \in DOMAIN w \cap DOMAIN factor_etfs : d \in FactorDates(f)}
    IN  RSum([f \in used |-> RMul(w[f], Val(factor_returns[factor_etfs[f]][d]))], used)

C9_ReconciliationEnforced ==
    pc = "calculate_factor_tilts_attribution" =>
        IF attribution.ok
        THEN Reconciles(attribution)
        ELSE raised = "ReconciliationError" \/ DfEmpty(portfolio_returns)

IsZeroStd(std) == std.k = "num" /\ std.var.n = 0

\* C10 (as claimed): with at least one common date the information ratio and
\* both Sharpe ratios are defined numbers, never NaN, and each is exactly 0
\* when its denominator (tracking error, the series' volatility) is 0.
C10_RatiosDefined ==
    (AfterMetrics /\ metrics.ok) =>
        /\ metrics.information_ratio.k # "nan"
        /\ metrics.portfolio_sharpe.k # "nan"
        /\ metrics.benchmark_sharpe.k # "nan"
        /\ IsZeroStd(metrics.tracking_error) => metrics.information_ratio.k = "zero"
        /\ IsZeroStd(metrics.portfolio_vol) => metrics.portfolio_sharpe.k = "zero"
        /\ IsZeroStd(metrics.benchmark_vol) => metrics.benchmark_sharpe.k = "zero"

\* The dates on which both the Portfolio column and the benchmark series
\* have a value.
BothDates == AnyDates \cap BenchmarkDates

RECURSIVE GrowthOver(_, _)
GrowthOver(r, S) ==
    IF S = {} THEN ROne
    ELSE LET d == CHOOSE x \in S : TRUE
         IN  RMul(RAdd(ROne, r[d]), GrowthOver(r, S \ {d}))

Geometric(r, S) == RSub(GrowthOver(r, S), ROne)

\* The stored returns of a symbol as numbers, by date.
StoredReturns(sym) == [d \in Dates |-> Val(factor_returns[sym][d])]

\* The Portfolio daily returns by date, from the stored returns.
PortfolioDaily == [d \in Dates |-> ExpectedDailyReturn(portfolio_weights.w, d)]

\* The compounded return of a factor over the dates it has a return on; 0
\* for a factor with no column in the table.
FactorGeometric(f) ==
    IF f \in DOMAIN factor_etfs
    THEN Geometric(StoredReturns(factor_etfs[f]), FactorDates(f))
    ELSE RZero

\* C12: the period returns of the attribution are geometric.  total_return
\* is the product over all rows of (1 + Portfolio daily return) minus 1,
\* benchmark_return the product over all benchmark rows of (1 + daily
\* return) minus 1, excess_return their difference, and the factor period
\* return that enters each factor's contribution (contribution = wp * rp -
\* wb * rb) is the same product over the values of that factor's column.
C12_GeometricPeriodReturns ==
    (AfterBrinson /\ attribution.ok) =>
        /\ attribution.total_return = Geometric(PortfolioDaily, AnyDates)
        /\ attribution.benchmark_return =
               Geometric(StoredReturns(benchmark), BenchmarkDates)
        /\ attribution.excess_return =
               RSub(attribution.total_return, attribution.benchmark_return)
        /\ \A f \in DOMAIN portfolio_weights.w :
               attribution.factor_contributions[f] =
                   RSub(RMul(portfolio_weights.w[f], FactorGeometric(f)),
                        RMul(GetWeight(EffectiveBenchmarkWeights(benchmark_weights), f),
                             attribution.benchmark_return))

\* C12 witness: an attribution over two rows whose total return differs
\* from the arithmetic sum of the two Portfolio daily returns.
C12_CompoundedTwoRows ==
    /\ AfterBrinson /\ attribution.ok
    /\ Cardinality(AnyDates) >= 2
    /\ attribution.total_return # RSum(PortfolioDaily, AnyDates)
    /\ attribution.total_return = Geometric(PortfolioDaily, AnyDates)

\* The weights and returns that enter the Brinson terms of factor f.
Wp(f) == portfolio_weights.w[f]
Wb(f) == GetWeight(EffectiveBenchmarkWeights(benchmark_weights), f)
Rp(f) == FactorGeometric(f)
Rb == Geometric(StoredReturns(benchmark), BenchmarkDates)

\* C14: for each factor f carrying a portfolio weight, with wp, wb, rp and
\* rb as above, allocation(f) = (wp - wb) * rb, selection(f) =
\* wb * (rp - rb), interaction(f) = (wp - wb) * (rp - rb);
\* factor_contributions[f] is their sum, and allocation_effect,
\* selection_effect and interaction_effect are the sums of the per-factor
\* terms over all these factors.
C14_PerFactorFormulas ==
    (AfterBrinson /\ attribution.ok) =>
        LET F == DOMAIN portfolio_weights.w
            allocation  == [f \in F |-> RMul(RSub(Wp(f), Wb(f)), Rb)]
            selection   == [f \in F |-> RMul(Wb(f), RSub(Rp(f), Rb))]
            interaction == [f \in F |-> RMul(RSub(Wp(f), Wb(f)), RSub(Rp(f), Rb))]
        IN  /\ attribution.allocation_effect = RSum(allocation, F)
            /\ attribution.selection_effect = RSum(selection, F)
            /\ attribution.interaction_effect = RSum(interaction, F)
            /\ DOMAIN attribution.factor_contributions = F
            /\ \A f \in F :
                   attribution.factor_contributions[f] =
                       RAdd(RAdd(allocation[f], selection[f]), interaction[f])

\* C14 witness: an attribution in which, for some factor, none of the three
\* terms vanishes (wp # wb, rp # rb, rb # 0, wb # 0).
C14_AllTermsNonZero ==
    /\ AfterBrinson /\ attribution.ok
    /\ \E f \in DOMAIN portfolio_weights.w :
          /\ Wp(f) # Wb(f) /\ Rp(f) # Rb /\ Rb # RZero /\ Wb(f) # RZero
    /\ attribution.selection_effect # RZero
    /\ attribution.allocation_effect # RZero
    /\ attribution.interaction_effect # RZero

\* The weights get_portfolio_returns applies: the given ones, or the equal
\* weights over factor_etfs when none are given.
AppliedWeights ==
    IF portfolio_weights.none THEN DefaultWeights ELSE portfolio_weights.w

\* What a weighted factor adds to row i of the table: weight * return when
\* the table has a return of the factor on that row, else nothing.
Contribution(f, i) ==
    IF f \in FactorColumns(portfolio_returns)
          /\ ~IsNaN(portfolio_returns.cols[f][i])
    THEN RMul(AppliedWeights[f], Val(portfolio_returns.cols[f][i]))
    ELSE RZero

\* C15: on every row of the table the Portfolio daily return is the sum of
\* weight * factor_return over the factors present in both the table and
\* the weight vector; a weighted factor the table has no return for on that
\* day contributes zero, a factor without weight contributes nothing, and
\* no error is raised.
C15_WeightedDailyReturn ==
    (AfterPortfolio /\ ~DfEmpty(portfolio_returns)) =>
        /\ raised = "none"
        /\ \A i \in DOMAIN portfolio_returns.index :
              portfolio_returns.cols["Portfolio"][i] =
                  Num(RSum([f \in DOMAIN AppliedWeights |-> Contribution(f, i)],
                           DOMAIN AppliedWeights))

\* C15 witness: a table with a Growth column and a row with a Value return,
\* weighted with Value and Quality only: Quality is absent from the table,
\* Growth carries no weight, and the Portfolio return of the row is 6/10 of
\* the Value return, which is not zero.
C15_AbsentAndUnweightedFactor ==
    /\ AfterPortfolio
    /\ portfolio_weights = Weights([Value |-> Rat(6, 10), Quality |-> Rat(4, 10)])
    /\ FactorColumns(portfolio_returns) = {"Value", "Growth"}
    /\ \E i \in DOMAIN portfolio_returns.index :
          /\ ~IsNaN(portfolio_returns.cols["Value"][i])
          /\ ~IsNaN(portfolio_returns.cols["Growth"][i])
          /\ Val(portfolio_returns.cols["Growth"][i]) # RZero
          /\ portfolio_returns.cols["Portfolio"][i] =
                 Num(RMul(Rat(6, 10), Val(portfolio_returns.cols["Value"][i])))
          /\ portfolio_returns.cols["Portfolio"][i] # Num(RZero)

\* The tilt of a weighted factor from the stored returns: the sum over the
\* dates the factor has a return on of (weight - 1/n) * return, n the
\* number of factors of the weight vector.
TiltFromStore(f) ==
    LET w == portfolio_weights.w
        tilt == RSub(w[f], Rat(1, Cardinality(DOMAIN w)))
        r == StoredReturns(factor_etfs[f])
    IN  RSum([d \in Dates |-> RMul(tilt, r[d])], FactorDates(f))

\* The weighted factors the table has a column for: the configured ones
\* with a stored return on some date.
TiltedFactors ==
    {f \in DOMAIN portfolio_weights.w \cap DOMAIN factor_etfs : FactorDates(f) # {}}

EqualWeighted ==
    /\ ~portfolio_weights.none
    /\ \A f \in DOMAIN portfolio_weights.w :
          portfolio_weights.w[f] = Rat(1, Cardinality(DOMAIN portfolio_weights.w))

\* C17: for a weight vector equal to its own neutral vector the tilt
\* attribution is exactly 0 for every factor and the total tilt effect is
\* 0, whatever the table holds.
C17_NeutralVectorNoTilt ==
    (AfterTilts /\ EqualWeighted) =>
        /\ tilts.ok
        /\ \A f \in DOMAIN tilts.factor_tilt_contributions :
              tilts.factor_tilt_contributions[f] = RZero
        /\ tilts.total_tilt_effect = RZero

\* C17 witness: Value 1/2 and Growth 1/2 over a table in which both factors
\* have returns that do not sum to zero; both are attributed.
C17_EqualWeightsOverReturns ==
    /\ AfterTilts
    /\ EqualWeighted
    /\ tilts.ok
    /\ DOMAIN tilts.factor_tilt_contributions = {"Value", "Growth"}
    /\ \A f \in {"Value", "Growth"} :
          RSum(StoredReturns(factor_etfs[f]), FactorDates(f)) # RZero

\* factor_contributions[f] for a benchmark weight wb: allocation, selection
\* and interaction add up to wp * rp - wb * rb.
ContributionWith(wb, f) == RSub(RMul(Wp(f), Rp(f)), RMul(wb, Rb))

\* 1/N, N the number of factors carrying a portfolio weight.
WeightedShare == Rat(1, Cardinality(DOMAIN portfolio_weights.w))

\* 1/M for a configured factor, M the number of configured factors, and 0
\* for any other factor.
ConfiguredShare(f) ==
    IF f \in DOMAIN factor_etfs
    THEN Rat(1, Cardinality(DOMAIN factor_etfs))
    ELSE RZero

DefaultedBrinson == AfterBrinson /\ attribution.ok /\ benchmark_weights.none

\* C18 as stated: with no benchmark weights supplied, every factor carrying
\* a portfolio weight is attributed with benchmark weight 1/N, N the number
\* of those factors.
C18_DefaultOverWeightedFactors ==
    DefaultedBrinson =>
        \A f \in DOMAIN portfolio_weights.w :
            attribution.factor_contributions[f] = ContributionWith(WeightedShare, f)

\* C18, amended: with no benchmark weights supplied, every configured
\* factor receives 1/M, M the number of configured factors, whatever
\* factors carry a portfolio weight, and a weighted factor that is not
\* configured is attributed with benchmark weight 0; the weights applied
\* to the weighted factors sum to (number of weighted configured
\* factors) / M, which is 1 only when every configured factor is weighted.
C18_DefaultOverConfiguredFactors ==
    DefaultedBrinson =>
        LET F == DOMAIN portfolio_weights.w
            applied == RSum([f \in F |-> ConfiguredShare(f)], F)
        IN  /\ \A f \in F :
                  attribution.factor_contributions[f] =
                      ContributionWith(ConfiguredShare(f), f)
            /\ attribution.allocation_effect =
                  RMul(RSub(WeightSum(portfolio_weights.w), applied), Rb)
            /\ applied = Rat(Cardinality(F \cap DOMAIN factor_etfs),
                             Cardinality(DOMAIN factor_etfs))

\* C18 witness: Value alone is weighted (N = 1) among two configured
\* factors, the benchmark return is not zero, and Value's contribution is
\* the one of benchmark weight 1/2, not of 1.
C18_SingleFactorGetsConfiguredShare ==
    /\ DefaultedBrinson
    /\ portfolio_weights = Weights([Value |-> Rat(1, 1)])
    /\ Rb # RZero
    /\ attribution.factor_contributions["Value"] =
           ContributionWith(Rat(1, 2), "Value")
    /\ attribution.factor_contributions["Value"] #
           ContributionWith(Rat(1, 1), "Value")

\* The errors the calls are said to raise.
TypedErrors == {"DataUnavailableError", "InvalidWeightVectorError",
                "ReconciliationError", "PersistenceError"}

\* calculate_brinson_attribution has hit a failure: the table has no
\* Portfolio column (KeyError) or the weights are None (AttributeError).
BrinsonFailure == DfEmpty(portfolio_returns) \/ portfolio_weights.none

\* calculate_factor_tilts_attribution has hit a failure: len(None).
TiltsFailure == portfolio_weights.none

C26_AllocationEffectFromWeightSums ==
    (AfterBrinson /\ attribution.ok) =>
        LET F == DOMAIN portfolio_weights.w
            benchmark_sum == RSum([f \in F |-> Wb(f)], F)
        IN  /\ attribution.allocation_effect =
                  RMul(Rb, RSub(WeightSum(portfolio_weights.w), benchmark_sum))
            /\ (/\ ~benchmark_weights.none
                /\ DOMAIN benchmark_weights.w = F
                /\ WeightSum(portfolio_weights.w) = ROne
                /\ WeightSum(benchmark_weights.w) = ROne)
                   => attribution.allocation_effect = RZero

\* C26 witness: portfolio 6/10, 4/10 against benchmark 5/10, 5/10, a
\* benchmark return other than zero and factor returns that differ from
\* each other: the allocation effect is 0.
C26_NoAllocationEffect ==
    /\ AfterBrinson /\ attribution.ok
    /\ portfolio_weights = Weights([Value |-> Rat(6, 10), Growth |-> Rat(4, 10)])
    /\ benchmark_weights = Weights([Value |-> Rat(5, 10), Growth |-> Rat(5, 10)])
    /\ Rb # RZero
    /\ Rp("Value") # Rp("Growth")
    /\ attribution.allocation_effect = RZero

\* C27: in the result of calculate_factor_tilts_attribution, when every
\* weighted factor is a column of the table, total_tilt_effect equals
\* tilted_portfolio_return - neutral_portfolio_return, equals the sum of
\* daily_excess_returns, and is the sum of factor_tilt_contributions.
C27_TiltEffectReconciles ==
    (/\ AfterTilts /\ tilts.ok
     /\ DOMAIN portfolio_weights.w \subseteq FactorColumns(portfolio_returns)) =>
        /\ tilts.total_tilt_effect =
              RSub(tilts.tilted_portfolio_return, tilts.neutral_portfolio_return)
        /\ tilts.total_tilt_effect =
              RSum(tilts.daily_excess_returns, DOMAIN tilts.daily_excess_returns)
        /\ tilts.total_tilt_effect =
              RSum(tilts.factor_tilt_contributions,
                   DOMAIN tilts.factor_tilt_contributions)

\* C27 witness: a table of two rows with both weighted factors as columns,
\* one of them without a return on one of the rows, and a total tilt
\* effect other than zero.
C27_TiltOverTwoRows ==
    /\ AfterTilts /\ tilts.ok
    /\ DOMAIN portfolio_weights.w = FactorColumns(portfolio_returns)
    /\ Len(portfolio_returns.index) = 2
    /\ \E f \in FactorColumns(portfolio_returns), i \in 1..2 :
          IsNaN(portfolio_returns.cols[f][i])
    /\ tilts.total_tilt_effect # RZero

----------------------------------------------------------------------------
(* Compounding in floating point.  (series + 1).prod() - 1 multiplies      *)
(* doubles one after the other, rounding every product to the nearest      *)
(* double.  The model keeps a binary format with FractionBits fraction     *)
(* bits: a number of [1/2, 2) is the integer m standing for m / Unit; in   *)
(* [1, 2) the format holds the even m only, in [1/2, 1) every m.           *)

Unit == 2 ^ (FractionBits + 1)

\* Daily returns are k / ReturnGrid, binary fractions the format holds
\* exactly, so that 1 + r is exact as well: 1/64, -2/64, 3/64.
ReturnGrid == 2 ^ 6
ReturnSteps == {1, -2, 3}

\* n / d rounded to the nearest integer, ties to the even one.
RoundNearestEven(n, d) ==
    LET q == n \div d
        r == n % d
    IN  IF 2 * r < d THEN q
        ELSE IF 2 * r > d THEN q + 1
        ELSE IF q % 2 = 0 THEN q ELSE q + 1

\* series + 1, for a return of k / ReturnGrid (exact).
OnePlus(k) == Unit + k * (Unit \div ReturnGrid)

\* a * b in floating point: the exact product rounded to the format.
FloatMul(a, b) ==
    IF a * b >= Unit * Unit
    THEN 2 * RoundNearestEven(a * b, 2 * Unit)
    ELSE RoundNearestEven(a * b, Unit)

\* .prod(): the values multiplied from the first row to the last.
RECURSIVE FloatProdFrom(_, _)
FloatProdFrom(acc, values) ==
    IF values = <<>> THEN acc
    ELSE FloatProdFrom(FloatMul(acc, Head(values)), Tail(values))

\* (series + 1).prod() - 1 over the rows in the order given; the final
\* subtraction is exact.
FloatPeriodReturn(rows) ==
    FloatProdFrom(Unit, [i \in DOMAIN rows |-> OnePlus(rows[i].ret)]) - Unit

\* The rows as they come (no sort at all).  (Not what pivot does.)
Unsorted(rows) == rows

\* The rows in date order: what DataFrame.pivot(index='date') makes of them.
SortByDate(rows) ==
    LET index == SortAsc({rows[i].date : i \in DOMAIN rows})
    IN  [i \in DOMAIN index |->
            rows[CHOOSE j \in DOMAIN rows : rows[j].date = index[i]]]

\* The series the compounding is tried on: one row per date 1..n with a
\* return of ReturnSteps, stored in any order.
StoredSeries ==
    UNION {{[i \in 1..n |-> [date |-> o[i], ret |-> a[o[i]]]] :
                a \in [1..n -> ReturnSteps], o \in Permutations(1..n)} :
           n \in 2..MaxRows}

CompoundInit ==
    /\ AttrIdle /\ StoreIdle /\ ConcIdle /\ SnapshotIdle /\ HashIdle
    /\ series \in StoredSeries
    /\ compounded = NotCalled

\* The two ways the code compounds a stored series: as the rows come
\* (the benchmark series, read without ORDER BY and never sorted) and after
\* the pivot has put the rows in date order (the table's columns).
CompoundSeries ==
    /\ compounded = NotCalled
    /\ compounded' = [called |-> TRUE,
                      as_stored |-> FloatPeriodReturn(series),
                      by_date |-> FloatPeriodReturn(SortByDate(series))]
    /\ UNCHANGED <<series, attr_vars, snapshot_vars, hash_vars, store_vars, conc_vars>>

CompoundNext == CompoundSeries

CompoundSpec == CompoundInit /\ [][CompoundNext]_vars

\* The rows of the series by date, and the return compounded over the
\* dates 1, 2, ... in that order.
RetOn(d) == series[CHOOSE j \in DOMAIN series : series[j].date = d].ret

RECURSIVE CompoundedUpTo(_)
CompoundedUpTo(d) ==
    IF d = 0 THEN Unit ELSE FloatMul(CompoundedUpTo(d - 1), OnePlus(RetOn(d)))

\* C13 (as claimed): the compounded period return is identical for every
\* order of the rows: compounding the rows as stored gives exactly what
\* compounding them in date order gives.
C13_AnyOrderIdentical ==
    compounded.called => compounded.as_stored = compounded.by_date

\* C13 (amended): compounding the rows after they are sorted by date gives
\* the identical period return whatever order they were stored in; the
\* rows compounded in another order give a return that agrees with it up
\* to rounding (one unit in the last place of 1.0 per row), not bit for bit.
C13_SortedIdenticalElseRounding ==
    compounded.called =>
        /\ compounded.by_date = CompoundedUpTo(Len(series)) - Unit
        /\ Abs(compounded.as_stored - compounded.by_date) <= 2 * Len(series)

\* C13 witness: a series stored out of date order whose two period returns
\* differ in the last place.
C13_OrderChangesLastPlace ==
    /\ compounded.called
    /\ \E i \in DOMAIN series : series[i].date # i
    /\ compounded.as_stored # compounded.by_date

----------------------------------------------------------------------------
(* The record store: Python values, SQLite values, JSON and the hash.      *)

\* A Python value handed to the store: str, int, float, None or float nan.
PyStr(x) == [t |-> "str", n |-> 0, s |-> x]
PyInt(x) == [t |-> "int", n |-> x, s |-> ""]
PyFloat(x) == [t |-> "float", n |-> x, s |-> ""]
PyNone == [t |-> "none", n |-> 0, s |-> ""]
PyNaN == [t |-> "nan", n |-> 0, s |-> ""]
\* A list or dict, named by its json.dumps text, and a bytes object.
PyJson(x) == [t |-> "json", n |-> 0, s |-> x]
PyBytes == [t |-> "bytes", n |-> 0, s |-> ""]

\* A value as SQLite stores it, by storage class.
SqlText(x) == [t |-> "TEXT", n |-> 0, s |-> x]
SqlInteger(x) == [t |-> "INTEGER", n |-> x, s |-> ""]
SqlReal(x) == [t |-> "REAL", n |-> x, s |-> ""]
SqlNull == [t |-> "NULL", n |-> 0, s |-> ""]
SqlBlob == [t |-> "BLOB", n |-> 0, s |-> ""]

\* The twelve fields of TradeRecord, which are the hashed columns.
TradeFields == {"timestamp", "trade_id", "factor", "symbol", "action",
                "quantity", "price", "total_value", "reason",
                "portfolio_value_before", "portfolio_value_after", "user_id"}

\* Declared column types of trade_records.
RealColumns == {"quantity", "price", "total_value",
                "portfolio_value_before", "portfolio_value_after"}
\* Columns declared NOT NULL.
NotNullColumns == {"timestamp", "trade_id", "factor", "symbol", "action",
                   "quantity", "price", "total_value", "reason"}

\* The fields of DecisionRecord and of RiskAssessment.
DecisionFields == {"timestamp", "decision_id", "decision_type", "factors_affected",
                   "rationale", "supporting_data", "expected_outcome",
                   "actual_outcome", "user_id"}
RiskFields == {"timestamp", "assessment_id", "portfolio_beta", "var_95",
               "max_drawdown", "factor_concentration", "correlation_matrix",
               "regime_assessment", "risk_level", "recommendations"}
RiskRealColumns == {"portfolio_beta", "var_95", "max_drawdown"}
DecisionNotNull == {"timestamp", "decision_id", "decision_type", "factors_affected",
                    "rationale"}
RiskNotNull == {"timestamp", "assessment_id"}

\* json.dumps of one value: the text differs with the type ("100" for the
\* int, "100.0" for the float, "\"100\"" for the str, null, NaN), so the
\* token keeps the lexical form beside the payload.
JsonToken(v) ==
    [j |-> CASE v.t = "str"   -> "string"
             [] v.t = "json"  -> "container"
             [] v.t = "int"   -> "integer"
             [] v.t = "float" -> "decimal"
             [] v.t = "none"  -> "null"
             [] OTHER         -> "NaN",
     n |-> v.n, s |-> v.s]

\* generate_hash_signature(data): sha256 of json.dumps(data, sort_keys=True).
\* SHA-256 is taken as collision free: the digest is modelled by the
\* serialization it is computed from, the field -> JSON text mapping, which
\* sort_keys makes independent of the insertion order of the keys.
generate_hash_signature(data) == [f \in DOMAIN data |-> JsonToken(data[f])]

\* How the sqlite3 module binds a Python parameter (nan is bound as NULL);
\* a list or dict is passed through json.dumps by the caller and bound as
\* that text.
Bind(v) ==
    CASE v.t \in {"str", "json"} -> SqlText(v.s)
      [] v.t = "int"   -> SqlInteger(v.n)
      [] v.t = "float" -> SqlReal(v.n)
      [] OTHER         -> SqlNull

\* Column affinity on storing. A REAL column turns an integer into a real
\* and keeps text that is not a numeral (as "TAMPERED") and blobs as they
\* are; a TEXT column turns a number into its numeral.
Affinity(real_column, v) ==
    IF real_column
    THEN IF v.t = "INTEGER" THEN SqlReal(v.n) ELSE v
    ELSE IF v.t \in {"INTEGER", "REAL"}
         THEN [t |-> "TEXT", n |-> v.n, s |-> "numeral"]
         ELSE v

\* The values INSERT stores for a record's fields.
StoredFields(data, real_columns) ==
    [f \in DOMAIN data |-> Affinity(f \in real_columns, Bind(data[f]))]

\* The columns the store generates, which are no fields of the record.
MetadataColumns == {"id", "created_date"}

\* hash_signature IS NULL.
NullSignature == [null |-> TRUE]

\* A stored row: the id the table assigns (INTEGER PRIMARY KEY
\* AUTOINCREMENT), the columns of the record, hash_signature and
\* created_date (DEFAULT CURRENT_TIMESTAMP, the clock reading of the insert).
Row(id, fields, hash_sig) ==
    [id |-> SqlInteger(id), fields |-> fields, hash_signature |-> hash_sig,
     created_date |-> SqlText("CURRENT_TIMESTAMP")]

\* AUTOINCREMENT: one more than the largest id the table has held.
NextId(rows) ==
    LET ids == {Len(rows)} \cup {rows[i].id.n : i \in DOMAIN rows}
    IN  1 + CHOOSE m \in ids : \A n \in ids : n <= m

\* SELECT *: every column of row i under its name.
SelectAll(rows, i) ==
    [c \in DOMAIN rows[i].fields \cup MetadataColumns \cup {"hash_signature"} |->
        CASE c = "id" -> rows[i].id
          [] c = "created_date" -> rows[i].created_date
          [] c = "hash_signature" -> rows[i].hash_signature
          [] OTHER -> rows[i].fields[c]]

\* row.drop(labels)
Drop(row, labels) == [c \in DOMAIN row \ labels |-> row[c]]

\* A SELECT without the WHERE clause.  (Not what the code does.)
EveryRow(rows) == rows

\* WHERE hash_signature IS NOT NULL
WithHashSignature(rows) == SelectSeq(rows, LAMBDA r : r.hash_signature # NullSignature)

\* pd.read_sql_query infers a float64 column when every value of the column
\* is a number or NULL and some value is a number; NULL then reads as nan.
\* In every other column NULL reads as None.
NumericColumn(rows, f) ==
    /\ \E i \in DOMAIN rows : rows[i].fields[f].t \in {"REAL", "INTEGER"}
    /\ \A i \in DOMAIN rows : rows[i].fields[f].t \in {"REAL", "INTEGER", "NULL"}

\* The Python value read_sql_query / iterrows / to_dict yield for a cell.
ReadValue(v, numeric) ==
    CASE v.t = "TEXT"    -> [t |-> "str", n |-> v.n, s |-> v.s]
      [] v.t = "REAL"    -> PyFloat(v.n)
      [] v.t = "INTEGER" -> IF numeric THEN PyFloat(v.n) ELSE PyInt(v.n)
      [] v.t = "BLOB"    -> PyBytes
      [] OTHER           -> IF numeric THEN PyNaN ELSE PyNone

\* A row dict that keeps created_date among the hashed fields.  (Not what
\* the code does.)
RowDictWithCreatedDate(rows, i) ==
    LET kept == Drop(SelectAll(rows, i), {"id", "hash_signature"})
    IN  [f \in DOMAIN kept |->
            IF f = "created_date" THEN ReadValue(kept[f], FALSE)
            ELSE ReadValue(kept[f], NumericColumn(rows, f))]

\* row.drop(['id', 'hash_signature', 'created_date']).to_dict()
RowDict(rows, i) ==
    LET kept == Drop(SelectAll(rows, i), {"id", "hash_signature", "created_date"})
    IN  [f \in DOMAIN kept |-> ReadValue(kept[f], NumericColumn(rows, f))]

\* json.dumps raises TypeError on a bytes value.
Serializable(data) == \A f \in DOMAIN data : data[f].t # "bytes"

\* A verification loop that stops after the first row.  (Not what the code
\* does.)
TradeRecordsIntactFirstRowOnly(rows) ==
    \A i \in DOMAIN rows :
        i = 1 => rows[i].hash_signature = generate_hash_signature(RowDict(rows, i))

\* The loop of verify_data_integrity over the rows read from trade_records:
\* TRUE unless some row's recomputed hash differs from the stored one.
TradeRecordsIntact(rows) ==
    \A i \in DOMAIN rows :
        rows[i].hash_signature = generate_hash_signature(RowDict(rows, i))

\* A verification that, on an exception, returns the results it has so
\* far.  (Not what the code does.)
verify_data_integrity_so_far(trades, decisions, risks) ==
    LET trades_df == WithHashSignature(trades)
    IN  [trade_records |->
             /\ \A i \in DOMAIN trades_df : Serializable(RowDict(trades_df, i))
             /\ TradeRecordsIntact(trades_df),
         decision_records |-> TRUE,
         risk_assessments |-> TRUE]

\* verify_data_integrity(): only trade_records is examined ("Similar checks
\* for other tables..." is a comment), so the other two entries stay True;
\* an exception inside the try block turns every entry to False.
verify_data_integrity(trades, decisions, risks) ==
    LET trades_df == WithHashSignature(trades)
    IN
    IF \A i \in DOMAIN trades_df : Serializable(RowDict(trades_df, i))
    THEN [trade_records |-> TradeRecordsIntact(trades_df),
          decision_records |-> TRUE,
          risk_assessments |-> TRUE]
    ELSE [trade_records |-> FALSE, decision_records |-> FALSE,
          risk_assessments |-> FALSE]

----------------------------------------------------------------------------
(* Records handed to the store, and values written from outside.           *)

TradeIds == {"TEST_001", "TEST_002"}

\* quantity is annotated float; a dataclass does not convert, so a caller's
\* int stays an int (complete_system_integration computes int quantities).
Quantities == {PyFloat(100), PyInt(100)}

\* The test trade of the module's example, with the given id, quantity and
\* reason.
TestTrade(id, quantity, reason) ==
    [timestamp |-> PyStr("2024-01-01T09:30:00"),
     trade_id |-> PyStr(id),
     factor |-> PyStr("Value"),
     symbol |-> PyStr("VTV"),
     action |-> PyStr("BUY"),
     quantity |-> quantity,
     price |-> PyFloat(150),
     total_value |-> PyFloat(15000),
     reason |-> reason,
     portfolio_value_before |-> PyFloat(1000000),
     portfolio_value_after |-> PyFloat(985000),
     user_id |-> PyStr("system")]

\* Trades offered to record_trade: well-formed ones, and one whose reason
\* is None, which the NOT NULL constraint of the column refuses.
Trades ==
    {TestTrade(id, q, PyStr("Rebalancing")) : id \in TradeIds, q \in Quantities}
        \cup {TestTrade("TEST_001", PyFloat(100), PyNone)}

\* The test decision of the module's example; the list and the dict are
\* stored as their json.dumps text.
TestDecision ==
    [timestamp |-> PyStr("2024-01-01T09:30:00"),
     decision_id |-> PyStr("DEC_001"),
     decision_type |-> PyStr("ALLOCATION_CHANGE"),
     factors_affected |-> PyJson("[Value, Growth]"),
     rationale |-> PyStr("Market regime change detected"),
     supporting_data |-> PyJson("{vix_increase: 5.2}"),
     expected_outcome |-> PyStr("Outperformance during market downturn"),
     actual_outcome |-> PyNone,
     user_id |-> PyStr("system")]

TestAssessment ==
    [timestamp |-> PyStr("2024-01-01T09:30:00"),
     assessment_id |-> PyStr("RISK_001"),
     portfolio_beta |-> PyFloat(1),
     var_95 |-> PyFloat(-2),
     max_drawdown |-> PyFloat(-15),
     factor_concentration |-> PyJson("{Value: 0.5}"),
     correlation_matrix |-> PyJson("{}"),
     regime_assessment |-> PyStr("NORMAL"),
     risk_level |-> PyStr("LOW"),
     recommendations |-> PyJson("[]")]

\* Values an UPDATE from outside the program may write into a column.
TamperValues == {SqlText("TAMPERED"), SqlReal(999), SqlInteger(100), SqlNull, SqlBlob}

TotalRows == Len(trade_records) + Len(decision_records) + Len(risk_assessments)

NoResults == [trade_records |-> TRUE, decision_records |-> TRUE,
              risk_assessments |-> TRUE]

Returned(op, ok, results) == [op |-> op, ok |-> ok, results |-> results]

\* Constraints without the UNIQUE id column.  (Not what the schema says.)
NotNullOnly(rows, except, fields, not_null, unique) ==
    \A f \in not_null : fields[f].t # "NULL"

\* The constraints of a table: NOT NULL columns, and the UNIQUE id column
\* against the rows other than row `except` (0: against every row).
ConstraintsHold(rows, except, fields, not_null, unique) ==
    /\ \A f \in not_null : fields[f].t # "NULL"
    /\ \A i \in DOMAIN rows : i # except => rows[i].fields[unique] # fields[unique]

----------------------------------------------------------------------------
(* The operations of the record store.                                     *)

\* A record_trade that returns True whether or not the row was stored.
\* (Not what the code does.)
RecordTradeReturningTrue(trade) ==
    LET hash_sig == generate_hash_signature(trade)
        fields == StoredFields(trade, RealColumns)
    IN  IF ConstraintsHold(trade_records, 0, fields, NotNullColumns, "trade_id")
        THEN /\ TotalRows < MaxRecords
             /\ trade_records' = Append(trade_records,
                                     Row(NextId(trade_records), fields, hash_sig))
             /\ committed' = [committed EXCEPT !.trade_records = Append(@, fields)]
             /\ returned' = Returned("record_trade", TRUE, NoResults)
             /\ UNCHANGED <<decision_records, risk_assessments, attr_vars,
                            snapshot_vars, hash_vars, conc_vars, fn_vars>>
        ELSE /\ returned' = Returned("record_trade", TRUE, NoResults)
             /\ UNCHANGED <<trade_records, decision_records, risk_assessments,
                            committed, attr_vars, snapshot_vars, hash_vars,
                            conc_vars, fn_vars>>

\* record_trade(trade): hash of asdict(trade), INSERT, commit, return True;
\* any exception (a constraint refusing the row) is logged, return False.
RecordTrade(trade) ==
    LET hash_sig == generate_hash_signature(trade)
        fields == StoredFields(trade, RealColumns)
    IN  IF ConstraintsHold(trade_records, 0, fields, NotNullColumns, "trade_id")
        THEN /\ TotalRows < MaxRecords
             /\ trade_records' = Append(trade_records,
                                     Row(NextId(trade_records), fields, hash_sig))
             /\ committed' = [committed EXCEPT !.trade_records = Append(@, fields)]
             /\ returned' = Returned("record_trade", TRUE, NoResults)
             /\ UNCHANGED <<decision_records, risk_assessments, attr_vars, snapshot_vars, hash_vars, conc_vars, fn_vars>>
        ELSE /\ returned' = Returned("record_trade", FALSE, NoResults)
             /\ UNCHANGED <<trade_records, decision_records, risk_assessments,
                            committed, attr_vars, snapshot_vars, hash_vars, conc_vars, fn_vars>>

\* record_decision(decision)
RecordDecision(decision) ==
    LET hash_sig == generate_hash_signature(decision)
        fields == StoredFields(decision, {})
    IN  IF ConstraintsHold(decision_records, 0, fields, DecisionNotNull, "decision_id")
        THEN /\ TotalRows < MaxRecords
             /\ decision_records' = Append(decision_records,
                                        Row(NextId(decision_records), fields, hash_sig))
             /\ committed' = [committed EXCEPT !.decision_records = Append(@, fields)]
             /\ returned' = Returned("record_decision", TRUE, NoResults)
             /\ UNCHANGED <<trade_records, risk_assessments, attr_vars, snapshot_vars, hash_vars, conc_vars, fn_vars>>
        ELSE /\ returned' = Returned("record_decision", FALSE, NoResults)
             /\ UNCHANGED <<trade_records, decision_records, risk_assessments,
                            committed, attr_vars, snapshot_vars, hash_vars, conc_vars, fn_vars>>

\* record_risk_assessment(assessment)
RecordRiskAssessment(assessment) ==
    LET hash_sig == generate_hash_signature(assessment)
        fields == StoredFields(assessment, RiskRealColumns)
    IN  IF ConstraintsHold(risk_assessments, 0, fields, RiskNotNull, "assessment_id")
        THEN /\ TotalRows < MaxRecords
             /\ risk_assessments' = Append(risk_assessments,
                                        Row(NextId(risk_assessments), fields, hash_sig))
             /\ committed' = [committed EXCEPT !.risk_assessments = Append(@, fields)]
             /\ returned' = Returned("record_risk_assessment", TRUE, NoResults)
             /\ UNCHANGED <<trade_records, decision_records, attr_vars, snapshot_vars, hash_vars, conc_vars, fn_vars>>
        ELSE /\ returned' = Returned("record_risk_assessment", FALSE, NoResults)
             /\ UNCHANGED <<trade_records, decision_records, risk_assessments,
                            committed, attr_vars, snapshot_vars, hash_vars, conc_vars, fn_vars>>

\* A verification that repairs what it finds: every trade row gets the
\* hash recomputed from its stored fields.  (Not what the code does.)
VerifyDataIntegrityRepairing ==
    /\ returned' = Returned("verify_data_integrity", TRUE,
                      verify_data_integrity(trade_records, decision_records,
                                            risk_assessments))
    /\ trade_records' =
          [i \in DOMAIN trade_records |->
              [trade_records[i] EXCEPT
                  !.hash_signature = generate_hash_signature(RowDict(trade_records, i))]]
    /\ UNCHANGED <<decision_records, risk_assessments, committed,
                   attr_vars, snapshot_vars, hash_vars, conc_vars, fn_vars>>

\* verify_data_integrity(): reads the tables, writes nothing.
VerifyDataIntegrity ==
    /\ returned' = Returned("verify_data_integrity", TRUE,
                      verify_data_integrity(trade_records, decision_records,
                                            risk_assessments))
    /\ UNCHANGED <<trade_records, decision_records, risk_assessments, committed,
                   attr_vars, snapshot_vars, hash_vars, conc_vars, fn_vars>>

\* The rows after an UPDATE of column f of row i to value v, which the
\* column's affinity converts; hash_signature is left as it was.
Updated(rows, i, f, v, real_columns) ==
    [rows EXCEPT ![i].fields[f] = Affinity(f \in real_columns, v)]

\* An UPDATE that changes the stored value and that the table accepts.
Changes(rows, i, f, v, real_columns, not_null, unique) ==
    LET after == Updated(rows, i, f, v, real_columns)
    IN  /\ after[i].fields[f] # rows[i].fields[f]
        /\ ConstraintsHold(rows, i, after[i].fields, not_null, unique)

\* Every stored field of the table holds its committed value, except
\* possibly field f0 of row i0 (i0 = 0: no exception).
Untouched(rows, was, i0, f0) ==
    \A i \in DOMAIN rows : \A f \in DOMAIN rows[i].fields :
        (i # i0 \/ f # f0) => rows[i].fields[f] = was[i][f]

\* Somebody with access to the database file changes one stored field of a
\* trade row, to a foreign value or back to the committed one. One field of
\* the database is modified at a time.
TamperTrade(i, f, v) ==
    /\ Untouched(trade_records, committed.trade_records, i, f)
    /\ Untouched(decision_records, committed.decision_records, 0, f)
    /\ Untouched(risk_assessments, committed.risk_assessments, 0, f)
    /\ Changes(trade_records, i, f, v, RealColumns, NotNullColumns, "trade_id")
    /\ trade_records' = Updated(trade_records, i, f, v, RealColumns)
    /\ returned' = Returned("none", TRUE, NoResults)
    /\ UNCHANGED <<decision_records, risk_assessments, committed, attr_vars, snapshot_vars, hash_vars, conc_vars, fn_vars>>

TamperDecision(i, f, v) ==
    /\ Untouched(trade_records, committed.trade_records, 0, f)
    /\ Untouched(decision_records, committed.decision_records, i, f)
    /\ Untouched(risk_assessments, committed.risk_assessments, 0, f)
    /\ Changes(decision_records, i, f, v, {}, DecisionNotNull, "decision_id")
    /\ decision_records' = Updated(decision_records, i, f, v, {})
    /\ returned' = Returned("none", TRUE, NoResults)
    /\ UNCHANGED <<trade_records, risk_assessments, committed, attr_vars, snapshot_vars, hash_vars, conc_vars, fn_vars>>

TamperRisk(i, f, v) ==
    /\ Untouched(trade_records, committed.trade_records, 0, f)
    /\ Untouched(decision_records, committed.decision_records, 0, f)
    /\ Untouched(risk_assessments, committed.risk_assessments, i, f)
    /\ Changes(risk_assessments, i, f, v, RiskRealColumns, RiskNotNull, "assessment_id")
    /\ risk_assessments' = Updated(risk_assessments, i, f, v, RiskRealColumns)
    /\ returned' = Returned("none", TRUE, NoResults)
    /\ UNCHANGED <<trade_records, decision_records, committed, attr_vars, snapshot_vars, hash_vars, conc_vars, fn_vars>>

StoreInit ==
    AttrIdle /\ StoreIdle /\ ConcIdle /\ FnIdle /\ SnapshotIdle /\ HashIdle

StoreNext ==
    \/ \E trade \in Trades : RecordTrade(trade)
    \/ RecordDecision(TestDecision)
    \/ RecordRiskAssessment(TestAssessment)
    \/ VerifyDataIntegrity
    \/ \E i \in DOMAIN trade_records, f \in TradeFields :
         \E v \in TamperValues \cup {committed.trade_records[i][f]} :
            TamperTrade(i, f, v)
    \/ \E i \in DOMAIN decision_records, f \in DecisionFields :
         \E v \in TamperValues \cup {committed.decision_records[i][f]} :
            TamperDecision(i, f, v)
    \/ \E i \in DOMAIN risk_assessments, f \in RiskFields :
         \E v \in TamperValues \cup {committed.risk_assessments[i][f]} :
            TamperRisk(i, f, v)

StoreSpec == StoreInit /\ [][StoreNext]_vars

----------------------------------------------------------------------------
(* Properties of the record store.                                         *)

\* The last step was a verify_data_integrity call that returned.
Verified == returned.op = "verify_data_integrity"

\* Row i of the table holds a stored value other than the committed one.
Modified(rows, was, i) == rows[i].fields # was[i]

TradeModified == \E i \in DOMAIN trade_records :
                    Modified(trade_records, committed.trade_records, i)
DecisionModified == \E i \in DOMAIN decision_records :
                       Modified(decision_records, committed.decision_records, i)
RiskModified == \E i \in DOMAIN risk_assessments :
                   Modified(risk_assessments, committed.risk_assessments, i)

\* C3: whenever verify_data_integrity has just returned while some trade
\* row holds, in any of its twelve persisted fields, a stored value other
\* than the one record_trade committed, its result for trade_records is
\* False -- on the first verification after the change and on every later
\* one for as long as the row stays modified.
C3_TradeTamperDetected ==
    (Verified /\ TradeModified) => returned.results.trade_records = FALSE

\* A verification that ran over a modified trade row.
C3_VerifiedModifiedTrade ==
    Verified /\ TradeModified /\ returned.results.trade_records = FALSE

\* C4: whenever verify_data_integrity has just returned while a decision
\* row holds a modified stored value, its result for decision_records is
\* False, and likewise for a risk assessment row and risk_assessments.
C4_DecisionRiskTamperDetected ==
    Verified =>
        /\ DecisionModified => returned.results.decision_records = FALSE
        /\ RiskModified => returned.results.risk_assessments = FALSE

\* C5: whenever verify_data_integrity has just returned while every trade
\* row holds exactly the values record_trade committed, its result for
\* trade_records is True.
C5_RoundTripVerifies ==
    (Verified /\ ~TradeModified) =>
        returned.results.trade_records = TRUE

\* C22: verify_data_integrity is read-only.  Whether it finds a mismatch,
\* finds none or fails with an error, every stored row and every stored
\* hash_signature is after the call what it was before it.
C22_VerifyReadOnly ==
    [][returned'.op = "verify_data_integrity" =>
          /\ trade_records' = trade_records
          /\ decision_records' = decision_records
          /\ risk_assessments' = risk_assessments]_vars

\* C22 witness: a verification has reported a modified trade row, and the
\* row still holds the modified value beside the hash of the committed one.
C22_MismatchLeftInPlace ==
    /\ Verified
    /\ returned.results.trade_records = FALSE
    /\ \E i \in DOMAIN trade_records :
          /\ Modified(trade_records, committed.trade_records, i)
          /\ Serializable(RowDict(trade_records, i))
          /\ trade_records[i].hash_signature #
                 generate_hash_signature(RowDict(trade_records, i))

\* Reading and re-hashing the trade rows raises: json.dumps meets a bytes
\* value in a row that has a hash_signature.
RehashRaises ==
    \E i \in DOMAIN trade_records :
        /\ trade_records[i].hash_signature # NullSignature
        /\ \E f \in TradeFields : trade_records[i].fields[f].t = "BLOB"

\* C29: verify_data_integrity fails closed.  When reading or re-hashing the
\* stored records raises an error, the result is False for trade_records,
\* decision_records and risk_assessments alike.
C29_FailsClosed ==
    (Verified /\ RehashRaises) =>
        /\ returned.results.trade_records = FALSE
        /\ returned.results.decision_records = FALSE
        /\ returned.results.risk_assessments = FALSE

\* C29 witness: a verification that raised on a trade row has returned
\* False for the decision table, whose one row is as committed.
C29_UncheckedTableReportedFalse ==
    /\ Verified /\ RehashRaises
    /\ Len(decision_records) = 1
    /\ ~DecisionModified
    /\ returned.results.decision_records = FALSE

\* The table after the step is the table before it and one new row, which
\* holds the fields of the trade and the hash of those fields.
OneRowAdded(trade) ==
    /\ Len(trade_records') = Len(trade_records) + 1
    /\ SubSeq(trade_records', 1, Len(trade_records)) = trade_records
    /\ trade_records'[Len(trade_records')].fields = StoredFields(trade, RealColumns)
    /\ trade_records'[Len(trade_records')].hash_signature =
           generate_hash_signature(trade)

\* C30: the return value of record_trade matches the store.  A call that
\* returns True has committed exactly one new row holding the trade's
\* fields together with the hash of those fields; a call that returns
\* False (a duplicate trade_id, a missing mandatory field) leaves the
\* stored trade rows as they were.
C30_ReturnMatchesStore ==
    [][returned'.op = "record_trade" =>
          IF returned'.ok
          THEN \E trade \in Trades : OneRowAdded(trade)
          ELSE trade_records' = trade_records]_vars

\* C30 witness: record_trade has returned False while the table holds the
\* one row of an earlier call, as it was committed.
C30_RefusedWithRowStored ==
    /\ returned.op = "record_trade"
    /\ ~returned.ok
    /\ Len(trade_records) = 1
    /\ ~TradeModified
    /\ trade_records[1].hash_signature # NullSignature

----------------------------------------------------------------------------
(* Calls running side by side.  Every call opens a connection of its own
   (sqlite3.connect) and runs its INSERT in a transaction of that
   connection: the INSERT takes the write lock of the database file and
   checks the constraints of the table, commit() makes the row visible and
   gives the lock back.  A call that finds the lock held by another
   connection gets "database is locked" from execute(), which the except
   branch turns into the return value False.  The attribution results live
   in factor_data.db, the audit records in factor_records.db.             *)

Workers == 1..MaxWorkers

NoArg == <<>>

Idle == [op |-> "none", st |-> "idle", arg |-> NoArg, ok |-> FALSE]

Call(op, st, arg, ok) == [op |-> op, st |-> st, arg |-> arg, ok |-> ok]

\* The attribution results of the computations: one per period ending on the
\* last date and total return.
PeriodResults ==
    {[period_start |-> s, period_end |-> MaxDates, total_return |-> r] :
        s \in Dates, r \in {Rat(1, 100), Rat(2, 100)}}

ConcurrentInit ==
    /\ AttrIdle
    /\ StoreIdle
    /\ FnIdle
    /\ SnapshotIdle
    /\ HashIdle
    /\ attribution_results = <<>>
    /\ calls = [w \in Workers |-> Idle]
    /\ lock = NoLocks

\* record_trade up to cursor.execute(INSERT): the lock is free; the row is
\* written in the transaction of the call, or a constraint refuses it and
\* the call returns False.
RecordTradeExecute(w, trade) ==
    /\ calls[w].st = "idle"
    /\ lock.factor_records = 0
    /\ IF ConstraintsHold(trade_records, 0, StoredFields(trade, RealColumns),
                          NotNullColumns, "trade_id")
       THEN /\ calls' = [calls EXCEPT ![w] = Call("record_trade", "inserted", trade, FALSE)]
            /\ lock' = [lock EXCEPT !.factor_records = w]
       ELSE /\ calls' = [calls EXCEPT ![w] = Call("record_trade", "returned", trade, FALSE)]
            /\ UNCHANGED lock
    /\ UNCHANGED <<attribution_results, store_vars, attr_vars, snapshot_vars, hash_vars, fn_vars>>

\* record_trade when another connection holds the lock: execute() raises
\* OperationalError (database is locked), the call returns False.
RecordTradeLocked(w, trade) ==
    /\ calls[w].st = "idle"
    /\ lock.factor_records \notin {0, w}
    /\ calls' = [calls EXCEPT ![w] = Call("record_trade", "returned", trade, FALSE)]
    /\ UNCHANGED <<attribution_results, lock, store_vars, attr_vars, snapshot_vars, hash_vars, fn_vars>>

\* conn.commit(), conn.close(), return True.
RecordTradeCommit(w) ==
    /\ calls[w].op = "record_trade"
    /\ calls[w].st = "inserted"
    /\ LET trade == calls[w].arg
           fields == StoredFields(trade, RealColumns)
       IN  /\ trade_records' =
                 Append(trade_records, Row(NextId(trade_records), fields,
                                           generate_hash_signature(trade)))
           /\ committed' = [committed EXCEPT !.trade_records = Append(@, fields)]
    /\ calls' = [calls EXCEPT ![w] = Call("record_trade", "returned", calls[w].arg, TRUE)]
    /\ lock' = [lock EXCEPT !.factor_records = 0]
    /\ UNCHANGED <<attribution_results, decision_records, risk_assessments,
                   returned, attr_vars, snapshot_vars, hash_vars, fn_vars>>

\* persist(result): the INSERT of one row into attribution_results.  The
\* table has NOT NULL on the period columns and no other constraint.
PersistExecute(w, result) ==
    /\ calls[w].st = "idle"
    /\ lock.factor_data = 0
    /\ calls' = [calls EXCEPT ![w] = Call("persist", "inserted", result, FALSE)]
    /\ lock' = [lock EXCEPT !.factor_data = w]
    /\ UNCHANGED <<attribution_results, store_vars, attr_vars, snapshot_vars, hash_vars, fn_vars>>

\* persist(result) when another connection holds the lock: the write fails.
PersistLocked(w, result) ==
    /\ calls[w].st = "idle"
    /\ lock.factor_data \notin {0, w}
    /\ calls' = [calls EXCEPT ![w] = Call("persist", "returned", result, FALSE)]
    /\ UNCHANGED <<attribution_results, lock, store_vars, attr_vars, snapshot_vars, hash_vars, fn_vars>>

\* The commit of persist: the row gets the next id (INTEGER PRIMARY KEY
\* AUTOINCREMENT).
PersistCommit(w) ==
    /\ calls[w].op = "persist"
    /\ calls[w].st = "inserted"
    /\ attribution_results' =
          Append(attribution_results,
                 [id |-> Len(attribution_results) + 1,
                  period_start |-> calls[w].arg.period_start,
                  period_end |-> calls[w].arg.period_end,
                  total_return |-> calls[w].arg.total_return])
    /\ calls' = [calls EXCEPT ![w] = Call("persist", "returned", calls[w].arg, TRUE)]
    /\ lock' = [lock EXCEPT !.factor_data = 0]
    /\ UNCHANGED <<store_vars, attr_vars, snapshot_vars, hash_vars, fn_vars>>

ConcurrentNext ==
    \/ \E w \in Workers, trade \in Trades : RecordTradeExecute(w, trade)
    \/ \E w \in Workers, trade \in Trades : RecordTradeLocked(w, trade)
    \/ \E w \in Workers : RecordTradeCommit(w)
    \/ \E w \in Workers, result \in PeriodResults : PersistExecute(w, result)
    \/ \E w \in Workers, result \in PeriodResults : PersistLocked(w, result)
    \/ \E w \in Workers : PersistCommit(w)

ConcurrentSpec == ConcurrentInit /\ [][ConcurrentNext]_vars

----------------------------------------------------------------------------
(* Properties of the calls running side by side. *)

\* C19: the attribution store holds at most one row per (period_start,
\* period_end), after any sequence and any interleaving of persists.
C19_OneRowPerPeriod ==
    \A i, j \in DOMAIN attribution_results :
        (/\ attribution_results[i].period_start = attribution_results[j].period_start
         /\ attribution_results[i].period_end = attribution_results[j].period_end)
            => i = j

\* The calls of record_trade made with trade_id id.
TradeCalls(id) ==
    {w \in Workers : /\ calls[w].op = "record_trade"
                     /\ calls[w].arg.trade_id = PyStr(id)}

\* The stored rows with trade_id id.
TradeRows(id) ==
    {i \in DOMAIN trade_records : trade_records[i].fields["trade_id"] = SqlText(id)}

WellFormed(trade) ==
    \A f \in NotNullColumns : StoredFields(trade, RealColumns)[f].t # "NULL"

Succeeded(w) == calls[w].st = "returned" /\ calls[w].ok

\* The calls in flight or returned are record_trade calls with trade_id id,
\* two or more, all returned, one at least with a well-formed trade.
OnlyCallsWith(id) ==
    /\ \A w \in Workers : calls[w].st # "idle" => w \in TradeCalls(id)
    /\ Cardinality(TradeCalls(id)) >= 2
    /\ \A w \in TradeCalls(id) : calls[w].st = "returned"
    /\ \E w \in TradeCalls(id) : WellFormed(calls[w].arg)

\* C20: a duplicate trade_id is a conflict.  There is never more than one
\* row with a trade_id and never more than one call with that trade_id that
\* returned True; a row with that trade_id is stored exactly when a call
\* returned True, and its columns and hash are those of that call.  When
\* two (or more) calls with the same trade_id, one after the other or side
\* by side, have returned, exactly one returned True and the others False.
C20_DuplicateTradeIdConflict ==
    \A id \in TradeIds :
        LET won == {w \in TradeCalls(id) : Succeeded(w)}
        IN  /\ Cardinality(TradeRows(id)) <= 1
            /\ Cardinality(won) <= 1
            /\ (TradeRows(id) # {}) <=> (won # {})
            /\ \A w \in won, i \in TradeRows(id) :
                  /\ trade_records[i].fields = StoredFields(calls[w].arg, RealColumns)
                  /\ trade_records[i].hash_signature =
                         generate_hash_signature(calls[w].arg)
            /\ OnlyCallsWith(id) =>
                  /\ Cardinality(won) = 1
                  /\ Cardinality(TradeRows(id)) = 1

\* C20 witness: two calls with the same trade_id and different trades that
\* ran side by side (the loser found the database locked or the id taken)
\* have returned, one True and one False, and the stored hash is the
\* winner's and not the loser's.
C20_TwoCallsOneWinner ==
    \E w, v \in Workers :
        /\ w # v
        /\ OnlyCallsWith("TEST_001")
        /\ calls[w].ok /\ ~calls[v].ok
        /\ WellFormed(calls[v].arg)
        /\ calls[w].arg # calls[v].arg
        /\ \E i \in TradeRows("TEST_001") :
              /\ trade_records[i].hash_signature = generate_hash_signature(calls[w].arg)
              /\ trade_records[i].hash_signature # generate_hash_signature(calls[v].arg)

----------------------------------------------------------------------------
(* Daily snapshots and compliance events, beside the three record tables.  *)

\* portfolio_data handed to create_daily_snapshot on a day: the portfolio
\* before and after a purchase.
SnapshotData ==
    {[total_value |-> PyFloat(v), factor_allocations |-> PyJson("{Value: 0.5}")] :
        v \in {1000000, 985000}}

\* The columns create_daily_snapshot binds: total_value, and json.dumps of
\* the four mappings (an absent one is {}).
SnapshotFields(portfolio_data) ==
    [total_value |-> Affinity(TRUE, Bind(portfolio_data.total_value)),
     factor_allocations |-> Bind(portfolio_data.factor_allocations),
     performance_metrics |-> SqlText("{}"),
     benchmark_comparison |-> SqlText("{}"),
     market_conditions |-> SqlText("{}")]

\* INSERT OR REPLACE INTO portfolio_snapshots: date is UNIQUE, so a row of
\* the same date is deleted before the new row is inserted.
InsertOrReplace(rows, row) ==
    Append(SelectSeq(rows, LAMBDA r : r.date # row.date), row)

\* create_daily_snapshot(portfolio_data) on the day today (datetime.now()):
\* hash of portfolio_data, INSERT OR REPLACE, commit, return True.  The
\* clock does not run backwards.
CreateDailySnapshot(today, portfolio_data) ==
    /\ \A i \in DOMAIN portfolio_snapshots : portfolio_snapshots[i].date <= today
    /\ portfolio_snapshots' =
          InsertOrReplace(portfolio_snapshots,
                          [date |-> today,
                           fields |-> SnapshotFields(portfolio_data),
                           hash_signature |-> generate_hash_signature(portfolio_data)])
    /\ returned' = Returned("create_daily_snapshot", TRUE, NoResults)
    /\ UNCHANGED <<trade_records, decision_records, risk_assessments, committed,
                   compliance_events, attr_vars, conc_vars, fn_vars, hash_vars>>

\* log_compliance_event(event_type, description, severity): INSERT into
\* compliance_events (a table without hash_signature), commit, return True.
LogComplianceEvent(event_type, description, severity) ==
    /\ Len(compliance_events) < MaxRecords
    /\ compliance_events' =
          Append(compliance_events,
                 [event_type |-> SqlText(event_type),
                  description |-> SqlText(description),
                  severity |-> SqlText(severity)])
    /\ returned' = Returned("log_compliance_event", TRUE, NoResults)
    /\ UNCHANGED <<trade_records, decision_records, risk_assessments, committed,
                   portfolio_snapshots, attr_vars, conc_vars, fn_vars, hash_vars>>

LedgerInit ==
    AttrIdle /\ StoreIdle /\ ConcIdle /\ FnIdle /\ SnapshotIdle /\ HashIdle

\* The operations of the store that write or check records, in any order.
LedgerNext ==
    \/ \E trade \in Trades : RecordTrade(trade)
    \/ RecordDecision(TestDecision)
    \/ RecordRiskAssessment(TestAssessment)
    \/ \E today \in Dates, portfolio_data \in SnapshotData :
          CreateDailySnapshot(today, portfolio_data)
    \/ LogComplianceEvent("POSITION_LIMIT", "Factor weight above limit", "MEDIUM")
    \/ VerifyDataIntegrity

LedgerSpec == LedgerInit /\ [][LedgerNext]_vars

\* The rows of a table before a step are rows of the table after it, at
\* the same place, with the same fields and the same hash_signature.
RowsKept(rows, rows_after) ==
    \A i \in DOMAIN rows : i \in DOMAIN rows_after /\ rows_after[i] = rows[i]

\* C21: a persisted record is immutable.  No operation of the store
\* changes the fields or the hash_signature of a row that is stored: every
\* row of trade_records, decision_records and risk_assessments stays as it
\* is, and every stored snapshot (its date, fields and hash_signature) is
\* still stored after the operation.
C21_StoredRowsImmutable ==
    [][/\ RowsKept(trade_records, trade_records')
       /\ RowsKept(decision_records, decision_records')
       /\ RowsKept(risk_assessments, risk_assessments')
       /\ \A r \in Range(portfolio_snapshots) : r \in Range(portfolio_snapshots')]_vars

----------------------------------------------------------------------------
(* generate_hash_signature on mappings as Python keeps them: a dict is the
   sequence of its items <<key, value>> in the order of insertion.
   json.dumps(data, sort_keys=True) writes the items in the order of their
   keys; the digest of the text is modelled by the text (SHA-256 is taken
   as collision free).                                                     *)

\* The keys of the mappings, in the order Python sorts the strings.
SortedKeys == <<"price", "quantity", "reason">>

KeyRank(key) == CHOOSE i \in DOMAIN SortedKeys : SortedKeys[i] = key

\* The values a field may hold.
FieldValues(key) ==
    CASE key = "price"    -> {PyFloat(150), PyStr("150")}
      [] key = "quantity" -> {PyFloat(100), PyInt(100)}
      [] OTHER            -> {PyStr("Rebalancing"), PyNone}

\* The dicts of at most MaxFields items: distinct keys, in any order of
\* insertion.
Dicts ==
    UNION {{d \in [1..n -> {<<key, v>> : key \in Range(SortedKeys),
                                         v \in UNION {FieldValues(x) : x \in Range(SortedKeys)}}] :
              /\ \A i \in 1..n : d[i][2] \in FieldValues(d[i][1])
              /\ \A i, j \in 1..n : d[i][1] = d[j][1] => i = j} :
           n \in 0..MaxFields}

\* Items written in the order of insertion.  (Not what sort_keys=True
\* does.)
InsertionOrder(items) == items

\* sort_keys=True: the items in increasing order of their keys.
RECURSIVE SortKeys(_)
SortKeys(items) ==
    IF items = <<>> THEN <<>>
    ELSE LET m == CHOOSE i \in DOMAIN items :
                     \A j \in DOMAIN items : KeyRank(items[i][1]) <= KeyRank(items[j][1])
         IN  <<items[m]>> \o
             SortKeys(SubSeq(items, 1, m - 1) \o SubSeq(items, m + 1, Len(items)))

\* json.dumps(data, sort_keys=True): key and JSON text of the value, item
\* after item.
JsonDumps(items) ==
    LET sorted == SortKeys(items)
    IN  [i \in DOMAIN sorted |-> <<sorted[i][1], JsonToken(sorted[i][2])>>]

\* hashlib.sha256(data_string.encode()).hexdigest()
HashSignatureOf(items) == JsonDumps(items)

HashInit ==
    /\ AttrIdle /\ StoreIdle /\ ConcIdle /\ FnIdle /\ SnapshotIdle
    /\ mappings \in Dicts \X Dicts
    /\ signatures = NotCalled

\* generate_hash_signature called on each of the two mappings.
GenerateHashSignatures ==
    /\ signatures = NotCalled
    /\ signatures' = [called |-> TRUE,
                      first |-> HashSignatureOf(mappings[1]),
                      second |-> HashSignatureOf(mappings[2])]
    /\ UNCHANGED <<mappings, attr_vars, store_vars, conc_vars, fn_vars,
                   snapshot_vars>>

HashNext == GenerateHashSignatures

HashSpec == HashInit /\ [][HashNext]_vars

\* The field/value pairs of a mapping.
Pairs(items) == Range(items)

\* C24: the hash is canonical with respect to key order.  Two mappings get
\* the same signature when they hold the same field/value pairs, in
\* whatever order the fields were inserted, and different signatures when
\* a field is missing from one of them or holds a different value.
C24_HashCanonical ==
    signatures.called =>
        ((signatures.first = signatures.second)
            <=> (Pairs(mappings[1]) = Pairs(mappings[2])))

\* C24 witness: two mappings of two fields inserted in opposite orders
\* have been hashed to one signature.
C24_OppositeOrdersOneSignature ==
    /\ signatures.called
    /\ Len(mappings[1]) = 2
    /\ mappings[2] = <<mappings[1][2], mappings[1][1]>>
    /\ signatures.first = signatures.second

----------------------------------------------------------------------------
(* Writes to trade_records from outside the program: to the columns the
   store generates, to hash_signature, and to the fields.                  *)

\* Values an UPDATE may write into id (an integer no row holds) and into
\* created_date.
MetadataValues(c) ==
    IF c = "id" THEN {SqlInteger(99)} ELSE {SqlText("TAMPERED"), SqlNull}

\* UPDATE trade_records SET id = v (or created_date = v) of row i.
TamperMetadata(i, c, v) ==
    /\ SelectAll(trade_records, i)[c] # v
    /\ trade_records' =
          IF c = "id" THEN [trade_records EXCEPT ![i].id = v]
          ELSE [trade_records EXCEPT ![i].created_date = v]
    /\ returned' = Returned("none", TRUE, NoResults)
    /\ UNCHANGED <<decision_records, risk_assessments, committed,
                   attr_vars, snapshot_vars, hash_vars, conc_vars, fn_vars>>

\* UPDATE trade_records SET hash_signature = NULL of row i.
TamperHashSignature(i) ==
    /\ trade_records[i].hash_signature # NullSignature
    /\ trade_records' = [trade_records EXCEPT ![i].hash_signature = NullSignature]
    /\ returned' = Returned("none", TRUE, NoResults)
    /\ UNCHANGED <<decision_records, risk_assessments, committed,
                   attr_vars, snapshot_vars, hash_vars, conc_vars, fn_vars>>

\* The field written from outside here.
TamperedFields == {"quantity"}

OutsideWriteInit ==
    AttrIdle /\ StoreIdle /\ ConcIdle /\ FnIdle /\ SnapshotIdle /\ HashIdle

OutsideWriteNext ==
    \/ \E trade \in Trades : RecordTrade(trade)
    \/ VerifyDataIntegrity
    \/ \E i \in DOMAIN trade_records, c \in MetadataColumns :
         \E v \in MetadataValues(c) : TamperMetadata(i, c, v)
    \/ \E i \in DOMAIN trade_records : TamperHashSignature(i)
    \/ \E i \in DOMAIN trade_records, f \in TamperedFields :
         \E v \in TamperValues \cup {committed.trade_records[i][f]} :
            TamperTrade(i, f, v)

OutsideWriteSpec == OutsideWriteInit /\ [][OutsideWriteNext]_vars

\* Row i was recorded from a trade whose quantity is a float, so that its
\* stored hash is the hash of what is read back.
RecordedAsRead(i) ==
    /\ trade_records[i].hash_signature # NullSignature
    /\ trade_records[i].hash_signature["quantity"].j = "decimal"

\* Row i holds an id or a created_date other than the one it got.
MetadataChanged(i) ==
    \/ trade_records[i].id # SqlInteger(i)
    \/ trade_records[i].created_date # SqlText("CURRENT_TIMESTAMP")

\* C25: store-generated metadata is outside the hash.  The hash stored at
\* persist time and the hash recomputed at verification cover the same
\* fields, the twelve fields of the trade without id, created_date and
\* hash_signature; so a verification over rows whose fields are as
\* committed reports no violation, whatever id and created_date hold.
C25_MetadataOutsideHash ==
    (/\ Verified
     /\ ~TradeModified
     /\ \A i \in DOMAIN trade_records : RecordedAsRead(i)) =>
        /\ \A i \in DOMAIN trade_records :
              /\ DOMAIN trade_records[i].hash_signature = TradeFields
              /\ DOMAIN RowDict(trade_records, i) = TradeFields
        /\ returned.results.trade_records = TRUE

\* C25 witness: a verification has passed over a row whose id and
\* created_date were both changed after it was stored.
C25_VerifiedAfterMetadataChange ==
    /\ Verified
    /\ ~TradeModified
    /\ returned.results.trade_records = TRUE
    /\ \E i \in DOMAIN trade_records :
          /\ RecordedAsRead(i)
          /\ trade_records[i].id # SqlInteger(i)
          /\ trade_records[i].created_date # SqlText("CURRENT_TIMESTAMP")

\* C28: verify_data_integrity examines only the trade rows whose
\* hash_signature is not NULL.  When every row that has a hash_signature
\* holds its committed fields, the result for trade_records is True,
\* whatever the rows without hash_signature hold.
C28_NullSignatureNotCompared ==
    (/\ Verified
     /\ \A i \in DOMAIN trade_records :
           trade_records[i].hash_signature # NullSignature =>
               /\ RecordedAsRead(i)
               /\ ~Modified(trade_records, committed.trade_records, i)) =>
        returned.results.trade_records = TRUE

\* C28 witness: a verification has passed although a row without
\* hash_signature holds a field other than the committed one.
C28_ModifiedRowSkipped ==
    /\ Verified
    /\ returned.results.trade_records = TRUE
    /\ \E i \in DOMAIN trade_records :
          /\ trade_records[i].hash_signature = NullSignature
          /\ Modified(trade_records, committed.trade_records, i)

====
